---- MODULE Spec2Model ----
(***************************************************************************)
(* Access decision engine of the Raspberry Pi face-access daemon           *)
(* (src/raspberry/pipeline.py and its collaborators).                      *)
(*                                                                         *)
(* Time is counted in whole seconds.  Similarity scores and thresholds are *)
(* counted in hundredths (0.6 is 60).  The probe and enrollment vectors    *)
(* are integer vectors with integer norms, so that the cosine is an exact  *)
(* number of hundredths; no input puts a score exactly on the threshold,   *)
(* where the 1e-9 added to the denominator and the float rounding decide.  *)
(***************************************************************************)
EXTENDS Integers, Sequences, FiniteSets, TLC

VARIABLES
    now,                  \* the clock read by time.time() / datetime.utcnow()
    recognizer,           \* self.recognizer: the active provider
    cache,                \* self.cache
    threshold,            \* self.settings.threshold (hundredths)
    last_trigger_time,    \* self.last_trigger_time
    consecutive_triggers, \* self.consecutive_triggers
    last_no_face_time,    \* self.last_no_face_time
    last,                 \* what the last operation did and returned
    lastPulseAt,          \* history: time of the last pulse made by process_frame
    pulsesSinceReset,     \* history: pulses by process_frame since the last reset
    fnIn,                 \* input of the pure function under test
    fnOut,                \* its result
    file,                 \* the snapshot file at settings.cache_path
    settings,             \* self.settings: gpio_pulse_ms, sync_interval_sec
    gpio,                 \* self.gpio: the GPIOController and its output line
    threads,              \* position of the loop thread and of the exit-button thread
    local_dir,            \* the files of settings.local_users_dir
    sync,                 \* the refresh_from_cloud call: position and history
    loop                  \* the control loop of main / main_usb

vars == <<now, recognizer, cache, threshold, last_trigger_time,
          consecutive_triggers, last_no_face_time, last, lastPulseAt,
          pulsesSinceReset, fnIn, fnOut, file, settings, gpio, threads, local_dir,
          sync, loop>>

daemonVars == <<file, settings, gpio, threads, local_dir, sync, loop>>

engineVars == <<now, recognizer, cache, threshold, last_trigger_time,
                consecutive_triggers, last_no_face_time, last, lastPulseAt,
                pulsesSinceReset>>

-----------------------------------------------------------------------------
(* Program constants *)

access_cooldown_sec == 5
max_consecutive_triggers == 3
NoFaceResetSec == 2
ThresholdDefault == 60
exit_button_enabled == TRUE
send_event_timeout == 10
gpio_pulse_ms == 800
rtsp_threshold == 50
InitialRetrySec == 5

(* Bounds of the model *)

MaxElapsed == 15
MaxWindows == 2
MaxSyncElapsed == 3

(* time.time() when the controller is constructed.  The real value is the  *)
(* epoch time; all the code does with it is compare differences with       *)
(* last_trigger_time (initially 0.0) against the cooldown and the no-face  *)
(* delay, so any value larger than both behaves the same.                  *)
BootTime == access_cooldown_sec + NoFaceResetSec + 1

SecondsPerDay == 24 * 3600
(* Wall clock: model second t is DayStartOffset + t seconds after a Monday *)
(* 00:00:00 UTC, which puts 09:00:00 of that Monday inside the horizon.    *)
DayStartOffset == 9 * 3600 - BootTime - 6

-----------------------------------------------------------------------------
(* Vectors and cosine similarity *)

RECURSIVE DotUpTo(_, _, _)
DotUpTo(a, b, n) == IF n = 0 THEN 0 ELSE a[n] * b[n] + DotUpTo(a, b, n - 1)

Dot(a, b) == DotUpTo(a, b, Len(a))

\* np.linalg.norm: exact on the vectors used here (their norms are integers)
Norm(a) == LET s == Dot(a, a) IN CHOOSE n \in 0..s : n * n <= s /\ (n + 1) * (n + 1) > s

cosine_similarity(a, b) ==
    IF Len(a) = 0 \/ Len(b) = 0 THEN 0
    ELSE LET denom == Norm(a) * Norm(b)
         IN  IF denom = 0 THEN 0        \* 0 / 1e-9
             ELSE (100 * Dot(a, b)) \div denom

-----------------------------------------------------------------------------
(* datetime.time.fromisoformat, on a string given as its characters.  The  *)
(* forms covered are HH, HH:MM and HH:MM:SS, each optionally followed by Z *)
(* or by +HH:MM / -HH:MM (which makes the value offset-aware); every other *)
(* string of the input domain is one Python rejects with ValueError.       *)

Digits == {"0", "1", "2", "3", "4", "5", "6", "7", "8", "9"}

DigitVal(c) ==
    CASE c = "0" -> 0 [] c = "1" -> 1 [] c = "2" -> 2 [] c = "3" -> 3
      [] c = "4" -> 4 [] c = "5" -> 5 [] c = "6" -> 6 [] c = "7" -> 7
      [] c = "8" -> 8 [] c = "9" -> 9

IsTwoDigits(s, i) == i + 1 <= Len(s) /\ s[i] \in Digits /\ s[i + 1] \in Digits

TwoDigits(s, i) == 10 * DigitVal(s[i]) + DigitVal(s[i + 1])

\* position of the first character that starts a UTC offset, or Len(s) + 1
TzStart(s) ==
    LET P == {i \in 1..Len(s) : s[i] \in {"+", "-", "Z"}}
    IN  IF P = {} THEN Len(s) + 1 ELSE CHOOSE i \in P : \A j \in P : i <= j

ClockOk(m) ==
    /\ Len(m) \in {2, 5, 8}
    /\ IsTwoDigits(m, 1) /\ TwoDigits(m, 1) < 24
    /\ Len(m) >= 5 => m[3] = ":" /\ IsTwoDigits(m, 4) /\ TwoDigits(m, 4) < 60
    /\ Len(m) = 8 => m[6] = ":" /\ IsTwoDigits(m, 7) /\ TwoDigits(m, 7) < 60

ClockSeconds(m) ==
    3600 * TwoDigits(m, 1)
      + (IF Len(m) >= 5 THEN 60 * TwoDigits(m, 4) ELSE 0)
      + (IF Len(m) = 8 THEN TwoDigits(m, 7) ELSE 0)

OffsetOk(z) ==
    \/ z = <<"Z">>
    \/ /\ Len(z) = 6 /\ z[1] \in {"+", "-"} /\ z[4] = ":"
       /\ IsTwoDigits(z, 2) /\ TwoDigits(z, 2) < 24
       /\ IsTwoDigits(z, 5) /\ TwoDigits(z, 5) < 60

\* [ok |-> parsed without ValueError, aware |-> has a tzinfo, sec |-> second of the day]
time_fromisoformat(s) ==
    LET k == TzStart(s)
        m == SubSeq(s, 1, k - 1)
        z == SubSeq(s, k, Len(s))
    IN  IF ClockOk(m) /\ (Len(z) = 0 \/ OffsetOk(z))
        THEN [ok |-> TRUE, aware |-> Len(z) > 0, sec |-> ClockSeconds(m)]
        ELSE [ok |-> FALSE, aware |-> FALSE, sec |-> 0]

-----------------------------------------------------------------------------
(* datetime.utcnow() at model second t: weekday() (Monday is 0) and time() *)

utcnow(t) ==
    [weekday |-> ((DayStartOffset + t) \div SecondsPerDay) % 7,
     tod     |-> (DayStartOffset + t) % SecondsPerDay]

-----------------------------------------------------------------------------
(* AccessController._is_within_schedule: "true", "false", or "raise" when  *)
(* the comparison of line 209, which is outside the try, raises TypeError  *)
(* (an offset-aware bound compared with the naive current time).           *)

\* start <= current_time <= end, a chained comparison: the second one is
\* evaluated only when the first is true
WindowCompare(start, tod, end) ==
    IF start.aware THEN "raise"
    ELSE IF ~(start.sec <= tod) THEN "false"
    ELSE IF end.aware THEN "raise"
    ELSE IF tod <= end.sec THEN "true" ELSE "false"

RECURSIVE ScanWindows(_, _, _)
ScanWindows(windows, i, dt) ==
    IF i > Len(windows) THEN "false"
    ELSE LET window == windows[i]
             start  == time_fromisoformat(window.start_time)
             end    == time_fromisoformat(window.end_time)
         IN  IF window.day_of_week # dt.weekday THEN ScanWindows(windows, i + 1, dt)
             ELSE IF ~start.ok \/ ~end.ok THEN ScanWindows(windows, i + 1, dt)
             ELSE LET r == WindowCompare(start, dt.tod, end)
                  IN  IF r = "false" THEN ScanWindows(windows, i + 1, dt) ELSE r

_is_within_schedule(c, user_id, dt) ==
    LET windows == SelectSeq(c.access_windows, LAMBDA w : w.user_id = user_id)
    IN  IF Len(windows) = 0 THEN "true" ELSE ScanWindows(windows, 1, dt)

-----------------------------------------------------------------------------
(* AccessController._best_match: [idx |-> position of the best enrollment  *)
(* in cache.embeddings, 0 for None; score |-> best_score]                  *)

\* mutant: enrollments of another model are not skipped
SkipOtherModel_Never(current_model, emb) == FALSE

SkipOtherModel(current_model, emb) ==
    current_model # "" /\ emb.model_name # "" /\ emb.model_name # current_model

\* mutant: only a shorter vector counts as a dimension mismatch
DimMismatch_ShorterOnly(emb, expected_dim) == Len(emb.vector) < expected_dim

DimMismatch(emb, expected_dim) == Len(emb.vector) # expected_dim

Better(score, best_score) == score > best_score

RECURSIVE BestFrom(_, _, _, _, _, _)
BestFrom(embs, current_model, embedding, i, best, best_score) ==
    IF i > Len(embs) THEN [idx |-> best, score |-> best_score]
    ELSE IF SkipOtherModel(current_model, embs[i])
         THEN BestFrom(embs, current_model, embedding, i + 1, best, best_score)
    ELSE IF DimMismatch(embs[i], Len(embedding))
         THEN BestFrom(embs, current_model, embedding, i + 1, best, best_score)
    ELSE LET score == cosine_similarity(embedding, embs[i].vector)
         IN  IF Better(score, best_score)
             THEN BestFrom(embs, current_model, embedding, i + 1, i, score)
             ELSE BestFrom(embs, current_model, embedding, i + 1, best, best_score)

_best_match(c, rec, embedding) == BestFrom(c.embeddings, rec.name, embedding, 1, 0, 0)

-----------------------------------------------------------------------------
(* Data.  An absent user_id (None) is 0; user ids are positive.  An        *)
(* expires_at is [fmt, at]: fmt "none" is null, "naive" an ISO date-time   *)
(* without offset at model second at, "aware" one with a UTC offset,       *)
(* "garbage" a string datetime.fromisoformat rejects.                      *)

NoUserId == 0

Enrollment(uid, name, vec, model, local) ==
    [user_id |-> uid, person_name |-> name, vector |-> vec,
     model_name |-> model, is_local |-> local]

User(id, identifier, fmt, at) ==
    [id |-> id, identifier |-> identifier, expires_at |-> [fmt |-> fmt, at |-> at]]

AccessWindow(uid, day, start, end) ==
    [user_id |-> uid, day_of_week |-> day, start_time |-> start, end_time |-> end]

\* A value of the remote config, or of a setting: a number, a value the
\* int() / float() conversion rejects, or no value at all.
Num(n) == [kind |-> "num", num |-> n]
BadValue == [kind |-> "bad", num |-> 0]
Absent == [kind |-> "absent", num |-> 0]

Config(thr, pulse, interval) ==
    [threshold |-> thr, gpio_pulse_ms |-> pulse, sync_interval_sec |-> interval]

NoConfig == Config(Absent, Absent, Absent)

\* A snapshot: the payload of the sync endpoint, as kept in self.cache and
\* in the snapshot file
Snapshot(users, embeddings, windows, photos, config) ==
    [users |-> users, embeddings |-> embeddings, access_windows |-> windows,
     photos |-> photos, config |-> config]

Cache(users, embeddings, windows) ==
    Snapshot(users, embeddings, windows, <<>>, NoConfig)

\* cache.load_cache when no snapshot exists
EmptyCache == Cache(<<>>, <<>>, <<>>)

-----------------------------------------------------------------------------
(* The recognizer provider.  A frame is [face, vec]: whether a face is in  *)
(* it and the embedding the model computes from it.                        *)

\* mutant: the has_face fast path is not consulted
HasFace_Ignored(rec, frame) == TRUE

\* lines 219-224: the optional has_face fast path, "always present" without it
HasFace(rec, frame) == IF rec.has_face THEN frame.face ELSE TRUE

\* InsightFaceRecognizer.embed raises ValueError when it detects no face
embed(rec, frame) ==
    IF rec.name = "insightface" /\ ~frame.face
    THEN [ok |-> FALSE, vec |-> <<>>]
    ELSE [ok |-> TRUE, vec |-> frame.vec]

-----------------------------------------------------------------------------
(* The gates of AccessController.process_frame *)

\* lines 230-233
\* mutant: every frame without a face resets the counter
ResetOnNoFace_Always(current_time, ltt, cons) == 0

ResetOnNoFace(current_time, ltt, cons) ==
    IF current_time - ltt > NoFaceResetSec /\ cons > 0 THEN 0 ELSE cons

\* mutant: the burst gate closes one trigger late
BurstReached_Late(cons) == cons > max_consecutive_triggers

\* line 237
BurstReached(cons) == cons >= max_consecutive_triggers

\* line 246
ThresholdGate(m, thr) == m.idx # 0 /\ m.score >= thr

\* line 252: the first user with the id of the match, 0 when there is none
FindUser(c, uid) ==
    LET P == {i \in 1..Len(c.users) : c.users[i].id = uid}
    IN  IF uid = NoUserId \/ P = {} THEN 0 ELSE CHOOSE i \in P : \A j \in P : i <= j

\* lines 257-264: "skipped" when there is no expires_at, "error" when the
\* parse or the comparison with utcnow() raises, else "expired" or "valid"
ExpirationCheck(expires_at, t) ==
    CASE expires_at.fmt = "none"    -> "skipped"
      [] expires_at.fmt = "garbage" -> "error"
      [] expires_at.fmt = "aware"   -> "error"
      [] expires_at.fmt = "naive"   -> IF expires_at.at < t THEN "expired" ELSE "valid"

\* lines 261-264: only a successful comparison clears allowed; the except
\* branch passes
AfterExpiration(allowed, chk) == IF chk = "expired" THEN FALSE ELSE allowed

\* line 265: whether the schedule gate is evaluated
ScheduleApplies(allowed, userIdx) == allowed /\ userIdx # 0

\* mutant: the cooldown ends one second early
InCooldown_Short(current_time, ltt) == current_time - ltt < access_cooldown_sec - 1

\* line 270
InCooldown(current_time, ltt) == current_time - ltt < access_cooldown_sec

\* mutant: a trigger is not counted
CountTrigger_Keeps(cons) == cons

\* line 283
CountTrigger(cons) == cons + 1

\* mutant: events are reported for local matches too
ShouldReport_Always(m, is_local) == TRUE

\* line 303
ShouldReport(m, is_local) == m.idx = 0 \/ ~is_local

\* sync_client.send_event on a network.  A network is [result, delay]: the
\* request completes with a 2xx reply ("ok"), with a reply of status >= 400
\* ("http_error", which send_event only logs), or raises ("raise": refused
\* connection, or no reply within the timeout); delay is the time in seconds
\* the blocking requests.post call takes.
send_event(net) ==
    CASE net.result = "ok"         -> [raised |-> FALSE, logged |-> FALSE]
      [] net.result = "http_error" -> [raised |-> FALSE, logged |-> TRUE]
      [] net.result = "raise"      -> [raised |-> TRUE, logged |-> FALSE]

\* mutant: an exception of send_event is not caught
CatchesEventFailure_Never(raised) == FALSE

\* lines 301-306: the try around send_event catches every Exception
CatchesEventFailure(raised) == TRUE

\* mutant: the decision always reports a trigger
TriggeredField_Always(allowed) == TRUE

\* line 307: the "triggered" field of the returned decision
TriggeredField(allowed) == allowed

NoFrame == [face |-> FALSE, vec |-> <<>>]

Observation(op, frame) ==
    [op |-> op, frame |-> frame, t |-> now,
     preLtt |-> last_trigger_time, preCons |-> consecutive_triggers,
     prePulses |-> pulsesSinceReset,
     outcome |-> "returned", tag |-> "none",
     allowed |-> FALSE, triggered |-> FALSE, score |-> 0,
     user_identifier |-> "", match |-> 0, is_local |-> FALSE, userIdx |-> 0,
     passed_threshold |-> FALSE, expiry |-> "skipped", schedule |-> "skipped",
     embedCalls |-> 0, matchCalls |-> 0, gpioCalls |-> 0, eventCalls |-> 0,
     eventStatus |-> "none", eventResult |-> "none", returnedAt |-> now,
     thr |-> threshold, pulse_ms |-> gpio.pulse_ms, atReport |-> FALSE,
     sincePulse |-> IF lastPulseAt < 0 THEN -1 ELSE now - lastPulseAt,
     ltt |-> last_trigger_time, cons |-> consecutive_triggers,
     lnf |-> last_no_face_time]

\* lines 268-307, once the gates before the cooldown have set allowed
\* lines 293-306: the event report.  The call blocks for the delay of the
\* network; an exception that is not caught leaves process_frame.
ReportEvent(p, net) ==
    IF ~ShouldReport([idx |-> p.match], p.is_local) THEN p
    ELSE LET r == send_event(net)
             q == [p EXCEPT !.eventCalls = 1,
                            !.eventStatus = IF p.allowed THEN "success" ELSE "denied",
                            !.eventResult = net.result,
                            !.returnedAt = p.t + net.delay]
         IN  IF r.raised /\ ~CatchesEventFailure(r.raised)
             THEN [q EXCEPT !.outcome = "raised"]
             ELSE q

\* lines 268-292, once the gates before the cooldown have set allowed: the
\* cooldown return, or the trigger and on to the event report
Conclude(o, m, allowed) ==
    IF allowed /\ InCooldown(now, last_trigger_time)
    THEN [o EXCEPT !.allowed = TRUE, !.triggered = FALSE]
    ELSE LET p == IF allowed
                  THEN [o EXCEPT !.gpioCalls = 1, !.ltt = now,
                                 !.cons = CountTrigger(consecutive_triggers)]
                  ELSE o
         IN  [p EXCEPT !.allowed = allowed, !.atReport = TRUE]

\* lines 246-266: threshold, identity, expiration, schedule
Gates(o, m) ==
    LET allowed0 == ThresholdGate(m, threshold)
        match == cache.embeddings[m.idx]
        uidx == IF allowed0 THEN FindUser(cache, match.user_id) ELSE 0
        local == m.idx # 0 /\ match.is_local
        chk == IF allowed0 /\ ~local /\ uidx # 0
               THEN ExpirationCheck(cache.users[uidx].expires_at, now)
               ELSE "skipped"
        allowed1 == AfterExpiration(allowed0, chk)
        sched == IF allowed0 /\ ~local /\ ScheduleApplies(allowed1, uidx)
                 THEN _is_within_schedule(cache, match.user_id, utcnow(now))
                 ELSE "skipped"
        allowed2 == IF sched = "skipped" THEN allowed1 ELSE sched = "true"
        o2 == [o EXCEPT !.matchCalls = 1, !.score = m.score, !.match = m.idx,
                        !.is_local = local, !.passed_threshold = allowed0,
                        !.userIdx = uidx, !.expiry = chk, !.schedule = sched,
                        !.user_identifier =
                            IF ~allowed0 THEN ""
                            ELSE IF uidx # 0 THEN cache.users[uidx].identifier
                            ELSE match.person_name]
    IN  IF sched = "raise" THEN [o2 EXCEPT !.outcome = "raised"]
        ELSE Conclude(o2, m, allowed2)

\* mutant: the trigger is counted before the embedding is computed
Recognize_CountsFirst(o, frame) ==
    LET e == embed(recognizer, frame)
        o1 == [o EXCEPT !.embedCalls = 1, !.cons = consecutive_triggers + 1]
    IN  IF ~e.ok THEN [o1 EXCEPT !.outcome = "raised"]
        ELSE Gates([o EXCEPT !.embedCalls = 1], _best_match(cache, recognizer, e.vec))

\* lines 241-242: embedding and matcher
Recognize(o, frame) ==
    LET e == embed(recognizer, frame)
        o1 == [o EXCEPT !.embedCalls = 1]
    IN  IF ~e.ok THEN [o1 EXCEPT !.outcome = "raised"]
        ELSE Gates(o1, _best_match(cache, recognizer, e.vec))

\* lines 213-292: process_frame up to its early returns or to the point of
\* the event report
Decide(frame) ==
    LET o == Observation("frame", frame)
    IN  IF ~HasFace(recognizer, frame)
        THEN [o EXCEPT !.tag = "no_face", !.lnf = now,
                       !.cons = ResetOnNoFace(now, last_trigger_time, consecutive_triggers)]
        ELSE IF BurstReached(consecutive_triggers)
        THEN [o EXCEPT !.tag = "max_triggers"]
        ELSE Recognize(o, frame)

\* mutant: the event is reported before the trigger, which a report that
\* raises then prevents
ReportAndReturn_ReportsFirst(p, net) ==
    IF ~p.atReport THEN p
    ELSE LET q == ReportEvent(p, net)
         IN  IF q.eventResult = "raise"
             THEN [q EXCEPT !.gpioCalls = 0, !.ltt = q.preLtt, !.cons = q.preCons,
                            !.triggered = FALSE]
             ELSE [q EXCEPT !.triggered = TriggeredField(q.allowed)]

\* lines 293-307: the event report and the final return
ReportAndReturn(p, net) ==
    IF ~p.atReport THEN p
    ELSE LET q == ReportEvent(p, net)
         IN  IF q.outcome = "raised" THEN q
             ELSE [q EXCEPT !.triggered = TriggeredField(q.allowed)]

process_frame(frame, net) == ReportAndReturn(Decide(frame), net)

-----------------------------------------------------------------------------
(* Inputs: frames, enrollments, users, windows, caches *)

T0900 == <<"0", "9", ":", "0", "0">>
T1700 == <<"1", "7", ":", "0", "0">>
T0900Utc == <<"0", "9", ":", "0", "0", "+", "0", "0", ":", "0", "0">>
TBad == <<"9", ":", "0", "0">>

FNoFace == [face |-> FALSE, vec |-> <<0, 0>>]
FAlice == [face |-> TRUE, vec |-> <<8, 6>>]
FBob == [face |-> TRUE, vec |-> <<3, 4>>]
FAdmin == [face |-> TRUE, vec |-> <<-3, 4>>]
FStranger == [face |-> TRUE, vec |-> <<4, -3>>]

Frames == {FNoFace, FAlice, FBob, FAdmin, FStranger}

EAlice == Enrollment(1, "alice-photo", <<4, 3>>, "insightface", FALSE)
EBob == Enrollment(2, "bob-photo", <<3, 4>>, "insightface", FALSE)
EAdmin == Enrollment(NoUserId, "admin", <<-3, 4>>, "insightface", TRUE)
ELocalAlice == Enrollment(NoUserId, "alice", <<4, 3>>, "insightface", TRUE)
EOtherModel == Enrollment(1, "alice-photo", <<4, 3>>, "hashed", FALSE)
EOtherDim == Enrollment(1, "alice-photo", <<4, 3, 0>>, "insightface", FALSE)

UAlice(fmt, at) == User(1, "alice", fmt, at)

Monday == 0
Tuesday == 1

Caches ==
    { EmptyCache,
      Cache(<<UAlice("none", 0)>>, <<EAlice>>, <<>>),
      Cache(<<UAlice("none", 0)>>, <<EOtherModel, EOtherDim>>, <<>>),
      Cache(<<UAlice("none", 0)>>, <<EAlice>>, <<AccessWindow(1, Monday, T0900, T1700)>>),
      Cache(<<UAlice("none", 0)>>, <<EAlice>>,
            <<AccessWindow(1, Monday, TBad, T1700), AccessWindow(1, Tuesday, T0900, T1700)>>),
      Cache(<<UAlice("none", 0)>>, <<EAlice>>, <<AccessWindow(1, Monday, T0900Utc, T1700)>>),
      Cache(<<UAlice("naive", BootTime + 3)>>, <<EAlice>>, <<>>),
      Cache(<<UAlice("aware", 0)>>, <<EAlice>>, <<>>),
      Cache(<<UAlice("garbage", 0)>>, <<EAlice>>, <<>>),
      Cache(<<UAlice("none", 0)>>, <<EBob>>, <<AccessWindow(2, Tuesday, T0900, T1700)>>),
      Cache(<<UAlice("naive", 0)>>, <<EOtherDim, EAlice, EAdmin>>,
            <<AccessWindow(1, Tuesday, T0900, T1700)>>),
      Cache(<<UAlice("naive", 0)>>, <<ELocalAlice>>,
            <<AccessWindow(1, Tuesday, T0900, T1700)>>) }

\* the event endpoint as one decision finds it: a prompt or a slow reply, an
\* error status, no reply within the timeout
PromptReply == [result |-> "ok", delay |-> 0]

Networks ==
    { PromptReply,
      [result |-> "ok", delay |-> send_event_timeout \div 2],
      [result |-> "http_error", delay |-> 0],
      [result |-> "raise", delay |-> send_event_timeout] }

\* the endpoint matters to a call only if the call gets to the report
NetworksOf(p, nets) == IF p.atReport THEN nets ELSE {PromptReply}

Recognizers ==
    { [name |-> "insightface", has_face |-> FALSE],
      [name |-> "insightface", has_face |-> TRUE] }

-----------------------------------------------------------------------------
(* Settings, the snapshot file, the remote catalog and the local users     *)

\* SYNC_INTERVAL_SEC of the environment the daemon runs in, in seconds (the
\* default of PiSettings is 300)
sync_interval_sec == 2

Settings(pulse, interval) == [gpio_pulse_ms |-> pulse, sync_interval_sec |-> interval]

DefaultSettings == Settings(gpio_pulse_ms, sync_interval_sec)

\* GPIOController.__init__ copies the pulse duration it is given
\* GPIOController.__init__: the line is requested as an output and set HIGH
\* (door locked).  line is the level the output was last set to, released
\* whether the line request has been released; cleanup_calls, idle_forced
\* and driver_raised are history.
GPIOController(pulse_ms) ==
    [pulse_ms |-> pulse_ms, mode |-> "v2", line |-> "HIGH", released |-> FALSE,
     cleanup_calls |-> 0, idle_forced |-> FALSE, driver_raised |-> FALSE]

\* The loop thread ("loop") and the exit-button thread ("button")
Threads(loopPc, buttonPc) == [loop |-> loopPc, button |-> buttonPc]

\* The controller taken alone: no thread is looked at
NoThreads == Threads("none", "none")

\* The snapshot file: whether the path exists, and its text as the sequence
\* of the top-level members of the JSON document
File(exists, text) == [exists |-> exists, text |-> text]

NoFile == File(FALSE, <<>>)

SnapshotKeys == <<"users", "embeddings", "access_windows", "photos", "config">>

json_dumps(c) ==
    [i \in 1..Len(SnapshotKeys) |-> [key |-> SnapshotKeys[i], val |-> c[SnapshotKeys[i]]]]

\* json.loads raises on an empty or truncated document
json_loads(text) ==
    IF Len(text) = Len(SnapshotKeys)
    THEN [ok |-> TRUE,
          val |-> Snapshot(text[1].val, text[2].val, text[3].val, text[4].val, text[5].val)]
    ELSE [ok |-> FALSE, val |-> EmptyCache]

load_cache(f) ==
    IF ~f.exists THEN [ok |-> TRUE, val |-> EmptyCache] ELSE json_loads(f.text)

\* Path.write_text: open for writing truncates the file, then the text is
\* written; a long text reaches the file in more than one write
OpenForWriting(f) == File(TRUE, <<>>)

WrittenInPart(doc) == File(TRUE, SubSeq(doc, 1, Len(doc) \div 2))

Written(doc) == File(TRUE, doc)

\* A photo of the remote catalog: fetch_ok tells whether fetch_photo gets
\* its bytes, frame is the image
Photo(uid, name, fetch_ok, frame) ==
    [user_id |-> uid, person_name |-> name, fetch_ok |-> fetch_ok, frame |-> frame]

RECURSIVE BuildFrom(_, _, _)
BuildFrom(rec, photos, i) ==
    IF i > Len(photos) THEN <<>>
    ELSE LET ph == photos[i]
             e == embed(rec, ph.frame)
         IN  (IF ph.fetch_ok /\ e.ok
              THEN <<Enrollment(ph.user_id, ph.person_name, e.vec, rec.name, FALSE)>>
              ELSE <<>>) \o BuildFrom(rec, photos, i + 1)

_build_embeddings_from_photos(rec, photos) == BuildFrom(rec, photos, 1)

\* mutant: the computed embeddings are added to those of the payload
ReplaceEmbeddings_Append(payload, embeddings) ==
    [payload EXCEPT !.embeddings = @ \o embeddings]

\* line 72
ReplaceEmbeddings(payload, embeddings) ==
    [payload EXCEPT !.embeddings = embeddings]

\* A file of the local users directory
LocalFile(stem, suffix, frame) == [stem |-> stem, suffix |-> suffix, frame |-> frame]

image_extensions == {".jpg", ".jpeg", ".png", ".bmp"}

HasLocal(c, person_name) ==
    \E k \in 1..Len(c.embeddings) :
        c.embeddings[k].person_name = person_name /\ c.embeddings[k].is_local

RECURSIVE LoadLocalFrom(_, _, _, _)
LoadLocalFrom(c, rec, dir, i) ==
    IF i > Len(dir) THEN c
    ELSE LET f == dir[i]
             e == embed(rec, f.frame)
             c2 == IF f.suffix \in image_extensions /\ e.ok /\ ~HasLocal(c, f.stem)
                   THEN [c EXCEPT !.embeddings =
                            Append(@, Enrollment(NoUserId, f.stem, e.vec, rec.name, TRUE))]
                   ELSE c
         IN  LoadLocalFrom(c2, rec, dir, i + 1)

_load_local_users(c, rec, dir) == LoadLocalFrom(c, rec, dir, 1)

\* lines 75-79: the overrides are converted and assigned one after the
\* other; a value the conversion rejects raises, after the assignments made
\* before it (gpio_pin, which nothing reads after construction, is left out)
ApplyConfig(config, thr, st) ==
    LET t == config.threshold
        p == config.gpio_pulse_ms
        v == config.sync_interval_sec
        thr1 == IF t.kind = "num" THEN t.num ELSE thr
        st1 == IF p.kind = "num" THEN [st EXCEPT !.gpio_pulse_ms = p.num] ELSE st
        st2 == IF v.kind = "num" THEN [st1 EXCEPT !.sync_interval_sec = v.num] ELSE st1
    IN  CASE t.kind = "bad" -> [raised |-> TRUE, threshold |-> thr, settings |-> st]
          [] p.kind = "bad" -> [raised |-> TRUE, threshold |-> thr1, settings |-> st]
          [] v.kind = "bad" -> [raised |-> TRUE, threshold |-> thr1, settings |-> st1]
          [] OTHER          -> [raised |-> FALSE, threshold |-> thr1, settings |-> st2]

\* What a resync may touch: the cache, the file, the live settings
StateOf(c, f, thr, st) == [cache |-> c, file |-> f, threshold |-> thr, settings |-> st]

NoState == StateOf(EmptyCache, NoFile, ThresholdDefault, DefaultSettings)

\* No refresh_from_cloud call made yet.  pc is the position of the call in
\* progress and doc the text it is writing.  The rest is history of the last
\* call: how it ended and where it raised, whether any call succeeded so
\* far, the catalog received by a call that succeeded and the overrides it
\* carried, the state before a call that raised, and settings.threshold as
\* the call left it.
SyncIdle ==
    [pc |-> "idle", result |-> "none", stage |-> "none", synced |-> FALSE,
     payload |-> EmptyCache, doc |-> <<>>, applied |-> NoConfig,
     pre |-> NoState, threshold_after |-> ThresholdDefault, failed_at |-> -1]

Loop(entry, pc, last_sync, original_threshold) ==
    [entry |-> entry, pc |-> pc, last_sync |-> last_sync,
     original_threshold |-> original_threshold]

\* The controller taken alone, outside any control loop
NoLoop == Loop("none", "none", 0, ThresholdDefault)

DaemonAtRest ==
    /\ file = NoFile
    /\ settings = DefaultSettings
    /\ gpio = GPIOController(gpio_pulse_ms)
    /\ threads = NoThreads
    /\ local_dir = <<>>
    /\ sync = SyncIdle
    /\ loop = NoLoop

-----------------------------------------------------------------------------
(* The state machine *)

NoInput == <<>>

Init ==
    /\ now = BootTime
    /\ recognizer \in Recognizers
    /\ cache \in Caches
    /\ threshold = ThresholdDefault
    /\ last_trigger_time = 0
    /\ consecutive_triggers = 0
    /\ last_no_face_time = 0
    /\ lastPulseAt = -1
    /\ pulsesSinceReset = 0
    /\ DaemonAtRest
    /\ last = Observation("idle", NoFrame)
    /\ fnIn = NoInput
    /\ fnOut = NoInput

\* time passes; the observation of the last operation is cleared, so that an
\* observation of a call is always read at the time of that call
Tick ==
    /\ now < BootTime + MaxElapsed
    /\ now' = now + 1
    /\ last' = [Observation("idle", NoFrame) EXCEPT !.t = now + 1]
    /\ UNCHANGED <<recognizer, cache, threshold, last_trigger_time,
                   consecutive_triggers, last_no_face_time, lastPulseAt,
                   pulsesSinceReset, fnIn, fnOut, daemonVars>>

\* one call of AccessController.process_frame on a frame; the clock moves on
\* by the time the call spent waiting for the event endpoint
ProcessFrame(frame, nets) ==
    \E p \in {Decide(frame)} : \E net \in NetworksOf(p, nets) :
    \E d \in {ReportAndReturn(p, net)} :
    LET noFaceSeen == recognizer.has_face /\ ~frame.face
    IN  /\ d.returnedAt <= BootTime + MaxElapsed
        /\ now' = d.returnedAt
        /\ last' = d
        /\ last_trigger_time' = d.ltt
        /\ consecutive_triggers' = d.cons
        /\ last_no_face_time' = d.lnf
        /\ lastPulseAt' = IF d.gpioCalls > 0 THEN now ELSE lastPulseAt
        /\ pulsesSinceReset' =
              IF d.gpioCalls > 0
              THEN (IF pulsesSinceReset > max_consecutive_triggers
                    THEN pulsesSinceReset ELSE pulsesSinceReset + 1)
              ELSE IF noFaceSeen /\ (lastPulseAt < 0 \/ now - lastPulseAt > NoFaceResetSec)
              THEN 0
              ELSE pulsesSinceReset
        /\ UNCHANGED <<recognizer, cache, threshold, fnIn, fnOut, file,
                       settings, gpio, threads, local_dir, sync>>

\* ExitButton._monitor_button accepting a press: main.on_button_press calls
\* controller.gpio.trigger().  The debounce delay (200 ms) is shorter than
\* one second of the model clock, so a press can be accepted at any time.
ExitButtonPress ==
    /\ exit_button_enabled
    /\ last' = [Observation("button", NoFrame) EXCEPT !.gpioCalls = 1]
    /\ UNCHANGED <<now, recognizer, cache, threshold, last_trigger_time,
                   consecutive_triggers, last_no_face_time, lastPulseAt,
                   pulsesSinceReset, fnIn, fnOut, daemonVars>>

\* process_frame called on the controller directly, on any frame
CallProcessFrame ==
    /\ \E frame \in Frames : ProcessFrame(frame, Networks)
    /\ UNCHANGED loop

Next ==
    \/ Tick
    \/ CallProcessFrame
    \/ ExitButtonPress

Spec == Init /\ [][Next]_vars

-----------------------------------------------------------------------------
(* Properties of the decision engine, read on the observation of the last  *)
(* operation.  last.t is the time at which that operation read the clock.  *)

IsDecision == last.op = "frame"

Probe == embed(recognizer, last.frame).vec

Comparable(emb) ==
    emb.model_name = recognizer.name /\ Len(emb.vector) = Len(Probe)

ReportedNoFace == recognizer.has_face /\ ~last.frame.face

BestEnrollment == cache.embeddings[last.match]

OutsideCooldown == last.sincePulse < 0 \/ last.sincePulse >= access_cooldown_sec

\* C1: two allowed decisions less than cooldown_period apart produce exactly
\* one hardware trigger: an allowed decision outside the cooldown pulses and
\* returns triggered, an allowed decision within cooldown_period of the last
\* pulse returns allowed without pulsing, and so two pulses made by
\* process_frame are never less than cooldown_period apart.
C1_CooldownIdempotence ==
    IsDecision =>
        /\ last.gpioCalls > 0 => OutsideCooldown
        /\ last.allowed /\ ~OutsideCooldown =>
               ~last.triggered /\ last.gpioCalls = 0
        /\ last.allowed /\ OutsideCooldown =>
               last.triggered /\ last.gpioCalls = 1

C1_Witness ==
    /\ IsDecision /\ last.allowed /\ ~last.triggered
    /\ last.sincePulse >= 0 /\ last.sincePulse < access_cooldown_sec

\* C2: after max_consecutive_triggers pulses by process_frame with no reset
\* in between, every frame that is not reported as having no face is denied
\* with tag max_triggers, without a pulse and without running the embedding
\* function or the matcher.
C2_BurstCap ==
    IsDecision /\ last.prePulses >= max_consecutive_triggers /\ ~ReportedNoFace =>
        /\ last.outcome = "returned" /\ last.tag = "max_triggers"
        /\ ~last.allowed /\ ~last.triggered
        /\ last.gpioCalls = 0 /\ last.embedCalls = 0 /\ last.matchCalls = 0

C2_Witness ==
    /\ IsDecision /\ last.prePulses >= max_consecutive_triggers
    /\ last.frame = FAlice /\ last.tag = "max_triggers"
    /\ cache.embeddings = <<EAlice>> /\ last.sincePulse >= access_cooldown_sec

\* C3 (as stated): the output is pulsed only by a process_frame decision that
\* returns triggered = true.
C3_OnlyDecisionsPulse ==
    last.gpioCalls > 0 => IsDecision /\ last.triggered

\* C3 (amended): process_frame calls gpio.trigger exactly once in a decision
\* that returns triggered = true and not at all in any other decision; the
\* only other caller is the exit-button thread, once per accepted press.
C3_PulseSources ==
    /\ IsDecision => last.gpioCalls = (IF last.triggered THEN 1 ELSE 0)
    /\ last.op = "button" => last.gpioCalls = 1
    /\ last.gpioCalls > 0 => last.op \in {"frame", "button"}

C3_Witness == IsDecision /\ last.triggered /\ last.gpioCalls = 1

\* C4: process_frame allows or pulses only if the matcher returned, in that
\* call, an enrollment comparable to the probe whose score is at least the
\* threshold; with no comparable enrollment in the cache the decision is a
\* deny.
C4_FailClosed ==
    IsDecision /\ (last.allowed \/ last.gpioCalls > 0) =>
        /\ last.matchCalls = 1 /\ last.match # 0
        /\ Comparable(BestEnrollment)
        /\ last.score = cosine_similarity(Probe, BestEnrollment.vector)
        /\ last.score >= threshold

C4_Witness ==
    /\ IsDecision /\ last.frame = FAlice /\ last.matchCalls = 1
    /\ Len(cache.embeddings) > 0
    /\ \A i \in 1..Len(cache.embeddings) : ~Comparable(cache.embeddings[i])
    /\ ~last.allowed /\ last.gpioCalls = 0

\* C5: when has_face reports false, process_frame returns the no_face deny
\* and calls neither the embedding function, nor the matcher, nor the
\* hardware trigger, nor the event report.
C5_NoFaceShortCircuit ==
    IsDecision /\ ReportedNoFace =>
        /\ last.outcome = "returned" /\ last.tag = "no_face"
        /\ ~last.allowed /\ ~last.triggered
        /\ last.embedCalls = 0 /\ last.matchCalls = 0
        /\ last.gpioCalls = 0 /\ last.eventCalls = 0

C5_Witness == IsDecision /\ ReportedNoFace /\ last.tag = "no_face"

\* C6: a decision whose best match is a local enrollment evaluates neither
\* the expiration gate nor the schedule gate (it is allowed exactly when the
\* score reaches the threshold, whatever the users and windows of the cache)
\* and posts no event.
C6_LocalIndependence ==
    IsDecision /\ last.match # 0 /\ BestEnrollment.is_local =>
        /\ last.outcome = "returned"
        /\ last.expiry = "skipped" /\ last.schedule = "skipped"
        /\ last.allowed <=> last.score >= threshold
        /\ last.eventCalls = 0

C6_Witness ==
    /\ IsDecision /\ last.match # 0 /\ BestEnrollment.is_local
    /\ last.allowed /\ last.triggered
    /\ \E i \in 1..Len(cache.users) :
          /\ cache.users[i].identifier = BestEnrollment.person_name
          /\ cache.users[i].expires_at.fmt = "naive"
          /\ cache.users[i].expires_at.at < last.t
    /\ Len(cache.access_windows) > 0

\* C7: a match that is not local and passed the threshold and expiration
\* gates is allowed (or pulses) only if _is_within_schedule(match.user_id)
\* is true at decision time, whether or not a User resolves for it.
C7_ScheduleGate ==
    /\ IsDecision /\ last.match # 0 /\ ~BestEnrollment.is_local
    /\ last.passed_threshold /\ last.expiry # "expired"
    /\ (last.allowed \/ last.gpioCalls > 0)
    => _is_within_schedule(cache, BestEnrollment.user_id, utcnow(last.t)) = "true"

ResolvedUser == cache.users[FindUser(cache, BestEnrollment.user_id)]

NonLocalPassedThreshold ==
    /\ IsDecision /\ last.matchCalls = 1 /\ last.match # 0
    /\ ~BestEnrollment.is_local
    /\ last.score >= threshold
    /\ FindUser(cache, BestEnrollment.user_id) # 0

\* C9: a non-local match that passed the threshold gate and whose resolved
\* User has expires_at set to a time in the past is denied, not triggered,
\* not pulsed, and the schedule gate is not evaluated.
C9_ExpiredDenied ==
    /\ NonLocalPassedThreshold
    /\ ResolvedUser.expires_at.fmt \in {"naive", "aware"}
    /\ ResolvedUser.expires_at.at < last.t
    => /\ ~last.allowed /\ ~last.triggered /\ last.gpioCalls = 0
       /\ last.schedule = "skipped"

\* C10: when the expires_at of the resolved User of a non-local match cannot
\* be parsed, or cannot be compared with the current time, the decision is
\* a deny and the hardware is not pulsed.
C10_ExpirationErrorDenies ==
    /\ NonLocalPassedThreshold
    /\ ResolvedUser.expires_at.fmt \in {"garbage", "aware"}
    => ~last.allowed /\ last.gpioCalls = 0

\* C11: every decision that reaches the matcher and returns emits exactly one
\* access event, with status success exactly when the decision is allowed,
\* unless the best match is a local enrollment (then none); this includes
\* the allowed decision that the cooldown keeps from pulsing.
C11_EventPerDecision ==
    IsDecision /\ last.matchCalls = 1 /\ last.outcome = "returned" =>
        IF last.is_local
        THEN last.eventCalls = 0
        ELSE /\ last.eventCalls = 1
             /\ last.eventStatus = (IF last.allowed THEN "success" ELSE "denied")

\* C19: a failing event report (send_event raises, or the reply is an error
\* status) does not leave process_frame as an exception and changes neither
\* the returned decision, nor last_trigger_time, consecutive_triggers and
\* last_no_face_time, nor whether the hardware was pulsed: all are what the
\* same call gives with a prompt successful report; the report is attempted
\* once.
C19_ReportFailureIsolated ==
    [][ last'.op = "frame" /\ last'.eventResult \in {"raise", "http_error"} =>
          \A good \in {process_frame(last'.frame, PromptReply)} :
              /\ last'.outcome = "returned"
              /\ last'.eventCalls = 1
              /\ [last' EXCEPT !.eventResult = "ok", !.returnedAt = good.returnedAt] = good
              /\ last_trigger_time' = good.ltt
              /\ consecutive_triggers' = good.cons
              /\ last_no_face_time' = good.lnf ]_vars

C19_Witness ==
    /\ IsDecision /\ last.eventCalls = 1 /\ last.eventResult = "raise"
    /\ last.outcome = "returned" /\ last.triggered /\ last.gpioCalls = 1
    /\ last_trigger_time = last.t

\* C20: process_frame returns its decision without waiting for the event
\* report: the decision is returned at the time the frame was taken up,
\* however slow the event endpoint is.
C20_ReportDoesNotBlock ==
    IsDecision => last.returnedAt = last.t

\* C22: the burst cap does not starve access for good: once the counter has
\* reached max_consecutive_triggers, a frame without a face that is
\* processed a cooldown window or more after the last trigger leaves the
\* counter reset, whichever recognizer is active (with or without
\* has_face), so that a later allowed frame can pulse again.
C22_QuietFrameResetsCounter ==
    /\ IsDecision /\ ~last.frame.face
    /\ last.preCons >= max_consecutive_triggers
    /\ last.t - last.preLtt >= access_cooldown_sec
    => consecutive_triggers = 0

\* the part of C22 that holds: the reset happens when the recognizer
\* reports the missing face through has_face
C22_QuietFrameResetsCounterWithHasFace ==
    /\ IsDecision /\ ~last.frame.face /\ recognizer.has_face
    /\ last.preCons >= max_consecutive_triggers
    /\ last.t - last.preLtt >= access_cooldown_sec
    => consecutive_triggers = 0

\* without has_face the counter never goes down
C22_CounterNeverResetsWithoutHasFace ==
    ~recognizer.has_face => consecutive_triggers >= last.preCons

\* C32: a frame the recognizer reports as having no face returns the
\* no_face deny whatever the counter (the presence gate comes before the
\* burst gate), records last_no_face_time = now, leaves last_trigger_time,
\* and sets consecutive_triggers to 0 if more than 2 seconds have passed
\* since last_trigger_time and leaves it unchanged otherwise; no other
\* decision lowers the counter.
C32_PresenceGate ==
    IsDecision =>
        /\ ReportedNoFace =>
              /\ last.outcome = "returned" /\ last.tag = "no_face" /\ ~last.allowed
              /\ last_no_face_time = last.t
              /\ last_trigger_time = last.preLtt
              /\ consecutive_triggers =
                    IF last.t - last.preLtt > NoFaceResetSec THEN 0 ELSE last.preCons
        /\ consecutive_triggers < last.preCons => ReportedNoFace

\* a frame without a face arrives with the counter at the cap, more than 2
\* seconds after the last trigger: no_face, and the counter is reset
C32_Witness ==
    /\ IsDecision /\ ReportedNoFace /\ last.tag = "no_face"
    /\ last.preCons = max_consecutive_triggers
    /\ last.t - last.preLtt > NoFaceResetSec
    /\ consecutive_triggers = 0

\* the other case of C32: within 2 seconds of the last trigger the counter
\* stays
C32_WitnessWithinTwoSeconds ==
    /\ IsDecision /\ ReportedNoFace /\ last.preCons > 0
    /\ last.t - last.preLtt <= NoFaceResetSec
    /\ consecutive_triggers = last.preCons

FacePathTaken == IsDecision /\ ~ReportedNoFace

\* C33: a decision that pulses the output sets last_trigger_time to the time
\* of the frame and adds exactly one to consecutive_triggers; every decision
\* on a frame not reported as faceless that does not pulse (burst deny,
\* threshold, expiration or schedule deny, allowed within the cooldown)
\* leaves both unchanged.
C33_DecisionStateEffect ==
    FacePathTaken =>
        IF last.gpioCalls = 1
        THEN /\ last_trigger_time = last.t
             /\ consecutive_triggers = last.preCons + 1
        ELSE /\ last.gpioCalls = 0
             /\ last_trigger_time = last.preLtt
             /\ consecutive_triggers = last.preCons

\* a second pulse: the counter goes from 1 to 2 and last_trigger_time moves
C33_Witness ==
    /\ FacePathTaken /\ last.gpioCalls = 1 /\ last.preCons = 1
    /\ last.preLtt > 0 /\ last_trigger_time = last.t /\ last.t > last.preLtt
    /\ consecutive_triggers = 2

\* an allowed decision within the cooldown, state untouched
C33_WitnessCooldown ==
    /\ FacePathTaken /\ last.allowed /\ last.gpioCalls = 0
    /\ last.preCons > 0 /\ consecutive_triggers = last.preCons
    /\ last_trigger_time = last.preLtt

\* C35: 0 <= consecutive_triggers <= max_consecutive_triggers in every
\* reachable state.
C35_CounterWithinCap ==
    consecutive_triggers >= 0 /\ consecutive_triggers <= max_consecutive_triggers

\* the counter is at the cap and a frame that would otherwise be allowed,
\* outside the cooldown, is turned away
C35_Witness ==
    /\ consecutive_triggers = max_consecutive_triggers
    /\ IsDecision /\ last.tag = "max_triggers" /\ last.frame = FAlice
    /\ last.t - last.preLtt >= access_cooldown_sec
    /\ last.preCons = max_consecutive_triggers

\* C38: in a decision that triggers, the pulse is made and last_trigger_time
\* and consecutive_triggers are updated at the time of the frame, before the
\* event report: whatever the event endpoint does (slow reply, error reply,
\* no reply), the decision that reports "success" has pulsed, at the time
\* it was taken up.
C38_PulseBeforeReport ==
    IsDecision /\ last.eventCalls = 1 /\ last.eventStatus = "success" =>
        /\ last.gpioCalls = 1
        /\ lastPulseAt = last.t
        /\ last_trigger_time = last.t
        /\ consecutive_triggers = last.preCons + 1

\* the event endpoint does not answer within the timeout, and the pulse was
\* made that long before process_frame returned
C38_Witness ==
    /\ IsDecision /\ last.eventCalls = 1 /\ last.eventStatus = "success"
    /\ last.eventResult = "raise"
    /\ last.returnedAt = last.t + send_event_timeout
    /\ last.gpioCalls = 1 /\ lastPulseAt = last.t

-----------------------------------------------------------------------------
(* _is_within_schedule as a function of its inputs: the windows of the     *)
(* cache, the user and the current weekday and time of day.                *)

T090000 == <<"0", "9", ":", "0", "0", ":", "0", "0">>
T170000 == <<"1", "7", ":", "0", "0", ":", "0", "0">>
TNone == <<"N", "o", "n", "e">>

WindowTimes ==
    { <<T0900, T1700>>, <<T090000, T170000>>, <<TBad, T1700>>,
      <<T0900, TNone>>, <<T0900Utc, T1700>> }

ScheduleWindows ==
    { AccessWindow(uid, day, p[1], p[2]) :
        uid \in {1, 2}, day \in {Monday, Tuesday}, p \in WindowTimes }

RECURSIVE SeqsUpTo(_, _)
SeqsUpTo(S, n) ==
    IF n = 0 THEN {<<>>}
    ELSE LET shorter == SeqsUpTo(S, n - 1)
         IN  shorter \cup {Append(q, x) : q \in shorter, x \in S}

\* 08:59:59, 09:00:00, 17:00:00, 17:00:01
ScheduleTimesOfDay ==
    {9 * 3600 - 1, 9 * 3600, 17 * 3600, 17 * 3600 + 1}

ScheduleInputs ==
    { [c |-> Cache(<<>>, <<>>, ws), user_id |-> 1,
       dt |-> [weekday |-> day, tod |-> tod]] :
        ws \in SeqsUpTo(ScheduleWindows, MaxWindows),
        day \in {Monday, Tuesday}, tod \in ScheduleTimesOfDay }

InitSchedule ==
    /\ now = BootTime
    /\ recognizer = [name |-> "insightface", has_face |-> FALSE]
    /\ cache = EmptyCache
    /\ threshold = ThresholdDefault
    /\ last_trigger_time = 0
    /\ consecutive_triggers = 0
    /\ last_no_face_time = 0
    /\ lastPulseAt = -1
    /\ pulsesSinceReset = 0
    /\ DaemonAtRest
    /\ last = Observation("idle", NoFrame)
    /\ fnIn \in ScheduleInputs
    /\ fnOut = [done |-> FALSE, result |-> "none"]

\* one call of _is_within_schedule(user_id, now)
CallIsWithinSchedule ==
    /\ ~fnOut.done
    /\ fnOut' = [done |-> TRUE,
                 result |-> _is_within_schedule(fnIn.c, fnIn.user_id, fnIn.dt)]
    /\ UNCHANGED <<engineVars, fnIn, daemonVars>>

SpecSchedule == InitSchedule /\ [][CallIsWithinSchedule]_vars

WindowsOfUser == {i \in 1..Len(fnIn.c.access_windows) :
                     fnIn.c.access_windows[i].user_id = fnIn.user_id}

WindowMatches(w) ==
    /\ w.day_of_week = fnIn.dt.weekday
    /\ time_fromisoformat(w.start_time).ok
    /\ time_fromisoformat(w.end_time).ok
    /\ time_fromisoformat(w.start_time).sec <= fnIn.dt.tod
    /\ fnIn.dt.tod <= time_fromisoformat(w.end_time).sec

ShouldBeWithinSchedule ==
    WindowsOfUser = {} \/ \E i \in WindowsOfUser : WindowMatches(fnIn.c.access_windows[i])

\* C8: _is_within_schedule returns true iff the user has no window, or one
\* of the user's windows is for today, has well-formed start and end times
\* and start_time <= time of day <= end_time (both inclusive); it never
\* raises.
C8_ScheduleIff ==
    fnOut.done =>
        fnOut.result = (IF ShouldBeWithinSchedule THEN "true" ELSE "false")

\* what holds of the code: the same, as long as no window of the user for
\* today carries a UTC offset in a bound that the scan compares
C8_ScheduleIffUnlessRaised ==
    fnOut.done /\ fnOut.result # "raise" =>
        fnOut.result = (IF ShouldBeWithinSchedule THEN "true" ELSE "false")

-----------------------------------------------------------------------------
(* The daemon with its resync: the control loop of main (RTSP camera) and  *)
(* of main_usb (USB camera) around refresh_from_cloud and process_frame.   *)
(* Both run in the one main thread, so a refresh_from_cloud call is        *)
(* followed step by step, and frames are taken up between the calls only.  *)
(* The event endpoint answers promptly here.                               *)

UBob == User(2, "bob", "none", 0)

EBobServer == Enrollment(2, "bob-server", <<3, 4>>, "insightface", FALSE)

\* the snapshot a previous run of the daemon left in the file
PreviousSnapshot ==
    Snapshot(<<UAlice("none", 0)>>, <<EAlice>>, <<>>,
             <<Photo(1, "alice-photo", TRUE, FAlice)>>, NoConfig)

InitialFiles == {NoFile, Written(json_dumps(PreviousSnapshot))}

LocalDirs ==
    { <<>>,
      <<LocalFile("admin", ".jpg", FAdmin), LocalFile("notes", ".txt", FAdmin),
        LocalFile("blurred", ".png", FNoFace)>> }

\* answers of the sync endpoint: a catalog with a photo that is served and
\* embedded, one that is not served and one with no face in it, together
\* with embeddings computed by the server; a catalog with config overrides;
\* a catalog whose gpio_pulse_ms override is not a number
Payloads ==
    { Snapshot(<<UAlice("none", 0), UBob>>, <<EBobServer>>, <<>>,
               <<Photo(2, "bob-photo", TRUE, FBob),
                 Photo(1, "alice-photo", FALSE, FAlice),
                 Photo(1, "alice-blurred", TRUE, FNoFace)>>, NoConfig),
      Snapshot(<<UAlice("none", 0)>>, <<>>, <<>>,
               <<Photo(1, "alice-photo", TRUE, FAlice)>>,
               Config(Num(97), Num(1500), Num(1))),
      Snapshot(<<UAlice("none", 0)>>, <<>>, <<>>,
               <<Photo(1, "alice-photo", TRUE, FAlice)>>,
               Config(Num(97), BadValue, Absent)) }

SyncFrames == {FNoFace, FAlice, FAdmin}

\* sync_client.fetch_sync_payload: the catalog, or raise_for_status /
\* the request raising
fetch_sync_payload(payload, outcome) ==
    [ok |-> outcome # "fetch_fails", val |-> payload]

\* mutant: the payload is assigned to self.cache as soon as it is fetched
FetchAndBuild_AssignFirst(c, rec, payload, outcome) ==
    LET got == fetch_sync_payload(payload, outcome)
    IN  IF ~got.ok THEN [raised |-> TRUE, stage |-> "fetch", cache |-> c]
        ELSE IF outcome = "interrupted"
        THEN [raised |-> TRUE, stage |-> "photos", cache |-> got.val]
        ELSE [raised |-> FALSE, stage |-> "none",
              cache |-> ReplaceEmbeddings(got.val,
                            _build_embeddings_from_photos(rec, got.val.photos))]

\* lines 70-73: the catalog fetch, the embedding of its photos, and only
\* then the assignment of the payload to self.cache.  outcome: the fetch
\* fails, the call is interrupted while the photos are processed, or neither.
FetchAndBuild(c, rec, payload, outcome) ==
    LET got == fetch_sync_payload(payload, outcome)
    IN  IF ~got.ok THEN [raised |-> TRUE, stage |-> "fetch", cache |-> c]
        ELSE IF outcome = "interrupted"
        THEN [raised |-> TRUE, stage |-> "photos", cache |-> c]
        ELSE [raised |-> FALSE, stage |-> "none",
              cache |-> ReplaceEmbeddings(got.val,
                            _build_embeddings_from_photos(rec, got.val.photos))]

InitSync ==
    /\ now = BootTime
    /\ recognizer = [name |-> "insightface", has_face |-> FALSE]
    /\ file \in InitialFiles
    /\ local_dir \in LocalDirs
    /\ cache = _load_local_users(load_cache(file).val, recognizer, local_dir)
    /\ threshold = ThresholdDefault
    /\ settings = DefaultSettings
    /\ gpio = GPIOController(gpio_pulse_ms)
    /\ threads = NoThreads
    /\ last_trigger_time = 0
    /\ consecutive_triggers = 0
    /\ last_no_face_time = 0
    /\ lastPulseAt = -1
    /\ pulsesSinceReset = 0
    /\ last = Observation("idle", NoFrame)
    /\ fnIn = NoInput
    /\ fnOut = NoInput
    /\ sync = SyncIdle
    /\ \E entry \in {"main", "main_usb"} : loop = Loop(entry, "boot", 0, ThresholdDefault)

\* main.py line 44 / main_usb.py line 47
SyncDue == now - loop.last_sync > settings.sync_interval_sec

\* the loop after a refresh_from_cloud call has returned or raised: the
\* initial sync of main is tried once, that of main_usb until it succeeds;
\* in the loop last_sync moves only on success
LoopAfterSync(lp, ok) ==
    IF lp.pc = "boot"
    THEN IF lp.entry = "main" \/ ok
         THEN [lp EXCEPT !.pc = "top", !.last_sync = now]
         ELSE [lp EXCEPT !.pc = "retry_sleep"]
    ELSE [lp EXCEPT !.pc = "frame", !.last_sync = IF ok THEN now ELSE @]

\* the time at which a resync made from the loop raised, -1 otherwise
FailedAt(raised) == IF raised /\ loop.pc = "top" THEN now ELSE -1

SyncEnd(result, stage, thr) ==
    [sync EXCEPT !.pc = "idle", !.result = result, !.stage = stage,
                 !.threshold_after = thr, !.doc = <<>>,
                 !.synced = @ \/ result = "ok",
                 !.applied = IF result = "ok" THEN sync.payload.config ELSE @,
                 !.payload = IF result = "ok" THEN @ ELSE EmptyCache,
                 !.pre = IF result = "ok" THEN NoState ELSE @,
                 !.failed_at = FailedAt(result = "raised")]

\* refresh_from_cloud is called, at startup and when a resync is due at the
\* top of the loop, by the thread that runs the loop: the request for the
\* catalog is sent and the thread waits for the reply
RefreshCall ==
    /\ sync.pc = "idle"
    /\ loop.pc = "boot" \/ (loop.pc = "top" /\ SyncDue)
    /\ sync' = [sync EXCEPT !.pc = "fetching"]
    /\ UNCHANGED <<engineVars, fnIn, fnOut, file, settings, gpio, threads, local_dir, loop>>

\* lines 70-73: the reply to the catalog request arrives or the request
\* fails, the photos are fetched and embedded, the cache is replaced
RefreshBegin(payload, outcome) ==
    /\ sync.pc = "fetching"
    /\ LET pre == StateOf(cache, file, threshold, settings)
           r == FetchAndBuild(cache, recognizer, payload, outcome)
           started == [sync EXCEPT !.payload = payload, !.pre = pre]
       IN  /\ cache' = r.cache
           /\ IF r.raised
              THEN /\ sync' = [started EXCEPT !.pc = "idle", !.result = "raised",
                                  !.stage = r.stage,
                                  !.threshold_after = threshold,
                                  !.payload = EmptyCache,
                                  !.failed_at = FailedAt(TRUE)]
                   /\ loop' = LoopAfterSync(loop, FALSE)
              ELSE /\ sync' = [started EXCEPT !.pc = "save", !.result = "none",
                                  !.stage = "none", !.doc = json_dumps(r.cache)]
                   /\ UNCHANGED loop
    /\ last' = Observation("sync", NoFrame)
    /\ UNCHANGED <<now, recognizer, threshold, last_trigger_time,
                   consecutive_triggers, last_no_face_time, lastPulseAt,
                   pulsesSinceReset, fnIn, fnOut, file, settings, gpio, threads, local_dir>>

\* line 74, cache.save_cache: write_text opens the file, which truncates it,
\* or fails to
SaveOpen(ok) ==
    /\ sync.pc = "save"
    /\ IF ok
       THEN /\ file' = OpenForWriting(file)
            /\ sync' = [sync EXCEPT !.pc = "opened"]
            /\ UNCHANGED loop
       ELSE /\ sync' = SyncEnd("raised", "save", threshold)
            /\ loop' = LoopAfterSync(loop, FALSE)
            /\ UNCHANGED file
    /\ UNCHANGED <<engineVars, fnIn, fnOut, settings, gpio, threads, local_dir>>

\* the first part of the text reaches the file
SaveWritePart ==
    /\ sync.pc = "opened"
    /\ file' = WrittenInPart(sync.doc)
    /\ sync' = [sync EXCEPT !.pc = "partial"]
    /\ UNCHANGED <<engineVars, fnIn, fnOut, settings, gpio, threads, local_dir, loop>>

\* the rest of the text reaches the file, or the write fails
SaveWriteRest(ok) ==
    /\ sync.pc = "partial"
    /\ IF ok
       THEN /\ file' = Written(sync.doc)
            /\ sync' = [sync EXCEPT !.pc = "saved"]
            /\ UNCHANGED loop
       ELSE /\ sync' = SyncEnd("raised", "save", threshold)
            /\ loop' = LoopAfterSync(loop, FALSE)
            /\ UNCHANGED file
    /\ UNCHANGED <<engineVars, fnIn, fnOut, settings, gpio, threads, local_dir>>

\* mutant: the end of a resync clears the burst counter and the cooldown
RefreshFinish_ClearsDecisionState(dirOk) ==
    /\ sync.pc = "saved"
    /\ dirOk \/ Len(local_dir) > 0
    /\ LET a == ApplyConfig(cache.config, threshold, settings)
           ok == ~a.raised /\ dirOk
       IN  /\ threshold' = a.threshold
           /\ settings' = a.settings
           /\ cache' = IF ok THEN _load_local_users(cache, recognizer, local_dir) ELSE cache
           /\ sync' = SyncEnd(IF ok THEN "ok" ELSE "raised",
                              IF a.raised THEN "config" ELSE IF dirOk THEN "none" ELSE "local",
                              threshold')
           /\ loop' = LoopAfterSync(loop, ok)
    /\ last_trigger_time' = 0
    /\ consecutive_triggers' = 0
    /\ UNCHANGED <<now, recognizer,
                   last_no_face_time, last, lastPulseAt, pulsesSinceReset,
                   fnIn, fnOut, file, gpio, threads, local_dir>>

\* lines 75-88: the config overrides, then the local users; dirOk is whether
\* the local users directory can be listed
RefreshFinish(dirOk) ==
    /\ sync.pc = "saved"
    /\ dirOk \/ Len(local_dir) > 0
    /\ LET a == ApplyConfig(cache.config, threshold, settings)
           ok == ~a.raised /\ dirOk
       IN  /\ threshold' = a.threshold
           /\ settings' = a.settings
           /\ cache' = IF ok THEN _load_local_users(cache, recognizer, local_dir) ELSE cache
           /\ sync' = SyncEnd(IF ok THEN "ok" ELSE "raised",
                              IF a.raised THEN "config" ELSE IF dirOk THEN "none" ELSE "local",
                              threshold')
           /\ loop' = LoopAfterSync(loop, ok)
    /\ UNCHANGED <<now, recognizer, last_trigger_time, consecutive_triggers,
                   last_no_face_time, last, lastPulseAt, pulsesSinceReset,
                   fnIn, fnOut, file, gpio, threads, local_dir>>

\* main_usb.py lines 39-41: the initial sync failed, retry after a sleep.
\* The retries go on without end; a time past the horizon is not counted.
LoopRetrySleep ==
    /\ loop.pc = "retry_sleep"
    /\ now' = IF now <= BootTime + MaxSyncElapsed THEN now + InitialRetrySec ELSE now
    /\ loop' = [loop EXCEPT !.pc = "boot"]
    /\ last' = [Observation("idle", NoFrame) EXCEPT !.t = now']
    /\ UNCHANGED <<recognizer, cache, threshold, last_trigger_time,
                   consecutive_triggers, last_no_face_time, lastPulseAt,
                   pulsesSinceReset, fnIn, fnOut, file, settings, gpio, threads,
                   local_dir, sync>>

\* no resync is due at the top of the loop
LoopSkipSync ==
    /\ loop.pc = "top" /\ sync.pc = "idle" /\ ~SyncDue
    /\ loop' = [loop EXCEPT !.pc = "frame"]
    /\ UNCHANGED <<engineVars, fnIn, fnOut, file, settings, gpio, threads, local_dir, sync>>

\* main.py lines 57-58: the threshold is replaced by rtsp_threshold
LoopSubstitute ==
    /\ loop.entry = "main" /\ loop.pc = "frame"
    /\ loop' = [loop EXCEPT !.pc = "substituted", !.original_threshold = threshold]
    /\ threshold' = rtsp_threshold
    /\ UNCHANGED <<now, recognizer, cache, last_trigger_time, consecutive_triggers,
                   last_no_face_time, last, lastPulseAt, pulsesSinceReset,
                   fnIn, fnOut, file, settings, gpio, threads, local_dir, sync>>

\* main.py line 60 / main_usb.py line 54: run_once on the frame read from
\* the camera.  In main an exception of run_once skips the lines after it.
LoopRunOnce(frame) ==
    /\ \/ loop.entry = "main" /\ loop.pc = "substituted"
       \/ loop.entry = "main_usb" /\ loop.pc = "frame"
    /\ ProcessFrame(frame, {PromptReply})
    /\ loop' = [loop EXCEPT !.pc = IF loop.entry = "main" /\ last'.outcome # "raised"
                                   THEN "ran" ELSE "top"]

\* main.py line 63: the threshold is put back
LoopRestore ==
    /\ loop.pc = "ran"
    /\ threshold' = loop.original_threshold
    /\ loop' = [loop EXCEPT !.pc = "top"]
    /\ UNCHANGED <<now, recognizer, cache, last_trigger_time, consecutive_triggers,
                   last_no_face_time, last, lastPulseAt, pulsesSinceReset,
                   fnIn, fnOut, file, settings, gpio, threads, local_dir, sync>>

\* the sleep at the end of an iteration, a second of it
LoopSleep ==
    /\ loop.pc = "top" /\ sync.pc = "idle"
    /\ now < BootTime + MaxSyncElapsed
    /\ Tick

NextSync ==
    \/ RefreshCall
    \/ \E payload \in Payloads, outcome \in {"ok", "fetch_fails", "interrupted"} :
          RefreshBegin(payload, outcome)
    \/ \E ok \in BOOLEAN : SaveOpen(ok)
    \/ SaveWritePart
    \/ \E ok \in BOOLEAN : SaveWriteRest(ok)
    \/ \E dirOk \in BOOLEAN : RefreshFinish(dirOk)
    \/ LoopRetrySleep
    \/ LoopSkipSync
    \/ LoopSubstitute
    \/ \E frame \in SyncFrames : LoopRunOnce(frame)
    \/ LoopRestore
    \/ LoopSleep

SpecSync == InitSync /\ [][NextSync]_vars

-----------------------------------------------------------------------------
(* Properties of the resync *)

SyncReturned == sync.pc = "idle" /\ sync.result = "ok"

SyncRaised == sync.pc = "idle" /\ sync.result = "raised"

RaisedEarly == SyncRaised /\ sync.stage \in {"fetch", "photos"}

\* C12: when refresh_from_cloud fails at the catalog fetch, or is interrupted
\* while the photo list is processed, the in-memory cache, the snapshot file
\* and the live settings (threshold, pulse duration, sync interval) are those
\* of before the call, and a later decision is the matcher's result on the
\* previous cache.
C12_EarlyFailureKeepsAll ==
    RaisedEarly =>
        /\ cache = sync.pre.cache
        /\ file = sync.pre.file
        /\ settings = sync.pre.settings
        /\ sync.threshold_after = sync.pre.threshold
        /\ IsDecision /\ last.matchCalls = 1 =>
               [idx |-> last.match, score |-> last.score]
                   = _best_match(sync.pre.cache, recognizer, Probe)

C12_Witness ==
    /\ RaisedEarly /\ sync.stage = "photos"
    /\ IsDecision /\ last.frame = FAlice /\ last.allowed
    /\ sync.pre.cache.embeddings[last.match] = EAlice

\* C13: whenever refresh_from_cloud raises, at whatever step, the in-memory
\* cache is still the cache of before the call.
C13_FailureKeepsCache ==
    SyncRaised => cache = sync.pre.cache

Usable(ph) == ph.fetch_ok /\ embed(recognizer, ph.frame).ok

\* one enrollment per photo that could be fetched and embedded, in the order
\* of the catalog
ExpectedRemote(photos) ==
    LET kept == SelectSeq(photos, Usable)
    IN  [i \in 1..Len(kept) |->
            Enrollment(kept[i].user_id, kept[i].person_name,
                       embed(recognizer, kept[i].frame).vec, recognizer.name, FALSE)]

IsRemote(emb) == ~emb.is_local

\* C14: after a successful refresh_from_cloud the non-local enrollments of
\* the cache are exactly one per catalog photo whose fetch and embedding both
\* succeeded, in catalog order, with the active recognizer's model name;
\* nothing of the previous cache or of the embeddings sent by the server is
\* among them.
C14_RemoteEnrollments ==
    SyncReturned =>
        SelectSeq(cache.embeddings, IsRemote) = ExpectedRemote(sync.payload.photos)

C14_Witness ==
    /\ SyncReturned
    /\ sync.payload.embeddings = <<EBobServer>>
    /\ Len(sync.payload.photos) = 3
    /\ SelectSeq(cache.embeddings, IsRemote) = <<EBob>>
    /\ HasLocal(cache, "admin")

\* C15: after every successful refresh_from_cloud the snapshot file holds the
\* in-memory cache: load_cache returns a cache equal to it.
C15_FileEqualsCache ==
    SyncReturned => load_cache(file).ok /\ load_cache(file).val = cache

\* C16: at every point of a save_cache call, load_cache of the file returns
\* the complete previous snapshot or the complete new one.
C16_AtomicSave ==
    /\ load_cache(file).ok
    /\ sync.pc # "idle" =>
           load_cache(file).val \in {load_cache(sync.pre.file).val, json_loads(sync.doc).val}

Embeddable(f) == f.suffix \in image_extensions /\ embed(recognizer, f.frame).ok

\* C17: at every process_frame call the cache holds a local enrollment for
\* every photo of the local users directory that the recognizer can embed.
C17_LocalsAlwaysPresent ==
    IsDecision =>
        \A i \in 1..Len(local_dir) :
            Embeddable(local_dir[i]) => HasLocal(cache, local_dir[i].stem)

\* C18: after a successful resync with config overrides, the next decision of
\* the loop applies the overridden threshold, the next trigger uses the
\* overridden pulse duration and the loop schedules with the overridden
\* interval; before a successful resync none of the three changes.
C18_OverridesInEffect ==
    /\ IsDecision /\ sync.synced /\ sync.applied.threshold.kind = "num" =>
           last.thr = sync.applied.threshold.num
    /\ IsDecision /\ sync.synced /\ sync.applied.gpio_pulse_ms.kind = "num"
           /\ last.gpioCalls > 0 =>
           last.pulse_ms = sync.applied.gpio_pulse_ms.num
    /\ SyncReturned /\ sync.applied.sync_interval_sec.kind = "num" =>
           settings.sync_interval_sec = sync.applied.sync_interval_sec.num
    /\ ~sync.synced /\ sync.pc = "idle" =>
           /\ settings = DefaultSettings
           /\ gpio.pulse_ms = gpio_pulse_ms
           /\ sync.threshold_after = ThresholdDefault

\* a step of the frame part of the loop: threshold substitution, run_once,
\* threshold restore
FrameStep ==
    \/ LoopSubstitute
    \/ \E frame \in SyncFrames : LoopRunOnce(frame)
    \/ LoopRestore

SyncInFlight == sync.pc # "idle"

\* C21: while a refresh_from_cloud call is in flight (catalog fetch, photo
\* fetch and embedding, save) the frame loop is not blocked: it can take
\* its next frame step and decide against the previous cache.
C21_LoopRunsDuringResync == SyncInFlight => ENABLED FrameStep

\* the part of C21 that holds: no frame is decided against a cache that a
\* resync is still building, because no frame is decided during a resync
C21_NoDecisionDuringResync ==
    [][SyncInFlight \/ sync'.pc # "idle" => ~(last'.op = "frame" /\ last' # last)]_vars

\* C23: after a resync made from the loop has failed, no further resync is
\* due until sync_interval_sec has passed since the failed attempt.
C23_FailedResyncWaits ==
    /\ sync.pc = "idle" /\ loop.pc = "top"
    /\ sync.failed_at >= 0
    /\ now - sync.failed_at < settings.sync_interval_sec
    => ~SyncDue

DecisionState == <<last_trigger_time, consecutive_triggers, last_no_face_time>>

\* C30: every step of a refresh_from_cloud call, successful or failing,
\* leaves last_trigger_time, consecutive_triggers and last_no_face_time
\* unchanged: a step that changes one of them is a process_frame call made
\* while no resync is in flight.
C30_RefreshKeepsDecisionState ==
    [][DecisionState' # DecisionState
          => ~SyncInFlight /\ sync' = sync /\ last'.op = "frame"]_vars

\* a resync made after a pulse has returned, and the cooldown and burst
\* state are those the pulse left
C30_Witness ==
    /\ sync.pc = "idle" /\ sync.result = "ok" /\ last.op = "sync"
    /\ last.preCons > 0 /\ last.preLtt > 0
    /\ consecutive_triggers = last.preCons
    /\ last_trigger_time = last.preLtt

\* C36: in main, once an iteration of the loop has run a frame and is back
\* at the top of the loop, settings.threshold is the value it had before
\* the substitution by rtsp_threshold, also when run_once raised.
C36_SubstitutionUndone ==
    loop.entry = "main" /\ loop.pc = "top" /\ last.op = "frame"
        => threshold = loop.original_threshold

\* the part of C36 that holds: the threshold is put back when run_once
\* returned
C36_SubstitutionUndoneUnlessRaised ==
    loop.entry = "main" /\ loop.pc = "top" /\ last.op = "frame" /\ last.outcome # "raised"
        => threshold = loop.original_threshold

\* the call of run_once in the loop
RunOnceStep ==
    /\ \/ loop.entry = "main" /\ loop.pc = "substituted"
       \/ loop.entry = "main_usb" /\ loop.pc = "frame"
    /\ loop'.pc # loop.pc

EmbedRaised(o) ==
    o.op = "frame" /\ o.outcome = "raised" /\ o.embedCalls = 1 /\ o.matchCalls = 0

\* C37: when recognizer.embed raises in process_frame, the call makes no
\* pulse and reports no event, leaves last_trigger_time, consecutive_triggers
\* and last_no_face_time (and the cache, the threshold in force, the
\* settings and the snapshot file) as they were, and the loop, which catches
\* the exception, is back at its top.
C37_EmbedFailureLeavesController ==
    [][RunOnceStep /\ EmbedRaised(last') =>
          /\ last'.gpioCalls = 0 /\ last'.eventCalls = 0
          /\ UNCHANGED <<last_trigger_time, consecutive_triggers, last_no_face_time,
                         lastPulseAt, cache, threshold, settings, file>>
          /\ loop'.pc = "top"]_vars

\* embed has raised on a frame taken after a pulse; the counter and the
\* time of the pulse are those the pulse left, and the loop goes on
C37_Witness ==
    /\ EmbedRaised(last) /\ loop.pc = "top"
    /\ last.preCons > 0 /\ consecutive_triggers = last.preCons
    /\ last.preLtt > 0 /\ last_trigger_time = last.preLtt

-----------------------------------------------------------------------------
(* The daemon started while the service is unreachable and stays so: every *)
(* catalog request fails.  The thread that runs the loop never stops by    *)
(* itself, which is the fairness assumed.                                  *)

NextOffline ==
    \/ RefreshCall
    \/ \E payload \in Payloads : RefreshBegin(payload, "fetch_fails")
    \/ LoopRetrySleep
    \/ LoopSkipSync
    \/ LoopSubstitute
    \/ \E frame \in SyncFrames : LoopRunOnce(frame)
    \/ LoopRestore
    \/ LoopSleep

SpecOffline == InitSync /\ [][NextOffline]_vars /\ WF_vars(NextOffline)

\* C24: started while the service is unreachable, the daemon of either
\* entry point reaches its frame loop and eventually decides a frame
\* (against the snapshot file's cache plus the local users).
C24_EventuallyDecides == <>(last.op = "frame")

\* the part of C24 that holds: the daemon started by main does
C24_MainEventuallyDecides == loop.entry = "main" => <>(last.op = "frame")

\* the daemon started by main_usb never leaves its startup retry
C24_UsbNeverDecides == loop.entry = "main_usb" => last.op # "frame" /\ loop.pc \in {"boot", "retry_sleep"}

-----------------------------------------------------------------------------
(* The matcher as a function: _best_match applied once to a cache of at    *)
(* most MaxEnrollments enrollments and a probe.  The enrollments cover     *)
(* scores 1, 0.96, 0, -1, a tie, another model, no model name, and longer  *)
(* and shorter vectors.                                                    *)

MaxEnrollments == 3

EOpposite == Enrollment(3, "carol-photo", <<-4, -3>>, "insightface", FALSE)
EOrthogonal == Enrollment(4, "dave-photo", <<3, -4>>, "insightface", FALSE)
\* emb.get("model_name") is falsy: the key is missing, None or ""
ENoModel == Enrollment(5, "erin-photo", <<4, 3>>, "", FALSE)
EShort == Enrollment(6, "frank-photo", <<5>>, "insightface", FALSE)

MatchEnrollments ==
    {EAlice, ELocalAlice, EBob, EOpposite, EOrthogonal, EOtherModel, ENoModel,
     EOtherDim, EShort}

MatchProbes == {<<4, 3>>, <<3, -4>>}

MatchInputs ==
    { [c |-> Cache(<<>>, embs, <<>>),
       rec |-> [name |-> "insightface", has_face |-> FALSE],
       embedding |-> probe] :
        embs \in SeqsUpTo(MatchEnrollments, MaxEnrollments), probe \in MatchProbes }

NoMatchYet == [done |-> FALSE, result |-> [idx |-> 0, score |-> 0]]

InitMatch ==
    /\ now = BootTime
    /\ recognizer = [name |-> "insightface", has_face |-> FALSE]
    /\ cache = EmptyCache
    /\ threshold = ThresholdDefault
    /\ last_trigger_time = 0
    /\ consecutive_triggers = 0
    /\ last_no_face_time = 0
    /\ lastPulseAt = -1
    /\ pulsesSinceReset = 0
    /\ DaemonAtRest
    /\ last = Observation("idle", NoFrame)
    /\ fnIn \in MatchInputs
    /\ fnOut = NoMatchYet

\* one call of _best_match(embedding)
CallBestMatch ==
    /\ ~fnOut.done
    /\ fnOut' = [done |-> TRUE,
                 result |-> _best_match(fnIn.c, fnIn.rec, fnIn.embedding)]
    /\ UNCHANGED <<engineVars, fnIn, daemonVars>>

SpecMatch == InitMatch /\ [][CallBestMatch]_vars

MatchEmbs == fnIn.c.embeddings

SameDim(emb) == Len(emb.vector) = Len(fnIn.embedding)

SameModel(emb) == emb.model_name = fnIn.rec.name

\* what _best_match returns for the cache without the enrollments of
\* another dimension
MatchWithoutOtherDims ==
    _best_match(Cache(<<>>, SelectSeq(MatchEmbs, SameDim), <<>>),
                fnIn.rec, fnIn.embedding)

\* C25: _best_match never returns an enrollment whose vector has another
\* dimension than the probe; such enrollments are skipped, and the result
\* (enrollment and score) is the one the matcher gives for the cache
\* without them, so they do not keep a later comparable enrollment from
\* being selected.
C25_OtherDimensionSkipped ==
    fnOut.done =>
        \A r \in {fnOut.result} : \A r2 \in {MatchWithoutOtherDims} :
            /\ r.idx # 0 => SameDim(MatchEmbs[r.idx])
            /\ r.score = r2.score
            /\ (r.idx = 0) = (r2.idx = 0)
            /\ r.idx # 0 => MatchEmbs[r.idx] = SelectSeq(MatchEmbs, SameDim)[r2.idx]

\* an enrollment of another dimension, which alone would have scored 1,
\* precedes the enrollment that is returned
C25_Witness ==
    /\ fnOut.done
    /\ fnOut.result.idx > 1
    /\ \E i \in 1..(fnOut.result.idx - 1) :
          /\ ~SameDim(MatchEmbs[i])
          /\ SameModel(MatchEmbs[i])
          /\ Len(MatchEmbs[i].vector) > Len(fnIn.embedding)

\* C26: _best_match returns only an enrollment whose model_name equals the
\* name of the active recognizer; an enrollment of another model, or with
\* a missing or empty model_name, is never returned.
C26_SameModelOnly ==
    fnOut.done /\ fnOut.result.idx # 0 => SameModel(MatchEmbs[fnOut.result.idx])

ComparableIdx == {i \in 1..Len(MatchEmbs) : SameModel(MatchEmbs[i]) /\ SameDim(MatchEmbs[i])}

ScoreOf(i) == cosine_similarity(fnIn.embedding, MatchEmbs[i].vector)

\* the reference: the first enrollment, in cache order, of maximal score
ArgMax ==
    CHOOSE i \in ComparableIdx :
        \A j \in ComparableIdx : ScoreOf(j) < ScoreOf(i) \/ (ScoreOf(j) = ScoreOf(i) /\ i <= j)

EveryModelNamed == \A i \in 1..Len(MatchEmbs) : MatchEmbs[i].model_name # ""

\* C27: on a cache whose enrollments all name their model, _best_match
\* returns the comparable enrollment (same model, same dimension) of
\* maximal cosine similarity, the first in cache order on ties, with that
\* similarity as the score, and returns no enrollment only when the cache
\* holds no comparable enrollment.
C27_ArgMax ==
    fnOut.done /\ EveryModelNamed =>
        IF ComparableIdx = {} THEN fnOut.result.idx = 0
        ELSE /\ fnOut.result.idx = ArgMax
             /\ fnOut.result.score = ScoreOf(ArgMax)

\* the part of C27 that holds: when some comparable enrollment scores above
\* zero the result is the reference arg-max
C27_ArgMaxWhenPositive ==
    fnOut.done /\ EveryModelNamed /\ (\E i \in ComparableIdx : ScoreOf(i) > 0) =>
        /\ fnOut.result.idx = ArgMax
        /\ fnOut.result.score = ScoreOf(ArgMax)

-----------------------------------------------------------------------------
(* The output line: GPIOController.trigger called by the loop thread (an   *)
(* allowed frame) and by the exit-button thread (on_press), each call      *)
(* taken statement by statement, and the shutdown of main / main_usb.  A   *)
(* set_value of the driver may raise; it then leaves the level as it was.  *)
(* Positions of a thread: "run" (outside trigger), "called", "sleep",      *)
(* "set_high" (inside trigger); of the loop thread at shutdown: "finally", *)
(* "release", "cleanup", "cleanup_release", "exited"; of the button        *)
(* thread: "stopped", and "none" when there is no exit button.             *)

ThreadNames == {"loop", "button"}

InTrigger(pc) == pc \in {"called", "sleep", "set_high"}

DaemonRunning == threads.loop \in {"run", "called", "sleep", "set_high"}

gpioFrame == <<engineVars, fnIn, fnOut, file, settings, local_dir, sync, loop>>

InitGpio ==
    /\ now = BootTime
    /\ recognizer = [name |-> "insightface", has_face |-> FALSE]
    /\ cache = EmptyCache
    /\ threshold = ThresholdDefault
    /\ last_trigger_time = 0
    /\ consecutive_triggers = 0
    /\ last_no_face_time = 0
    /\ lastPulseAt = -1
    /\ pulsesSinceReset = 0
    /\ fnIn = NoInput
    /\ fnOut = NoInput
    /\ file = NoFile
    /\ settings = DefaultSettings
    /\ local_dir = <<>>
    /\ sync = SyncIdle
    /\ loop = NoLoop
    /\ \E mode \in {"v2", "v1", "none"} :
          gpio = [GPIOController(gpio_pulse_ms) EXCEPT !.mode = mode]
    /\ \E button \in {"run", "none"} : threads = Threads("run", button)
    /\ last = Observation("idle", NoFrame)

\* gpio.trigger() is called: by process_frame in the loop thread
\* (pipeline.py line 281), by on_press in the button thread (main.py line 24)
TriggerCall(t) ==
    /\ DaemonRunning /\ threads[t] = "run"
    /\ threads' = [threads EXCEPT ![t] = "called"]
    /\ UNCHANGED <<gpioFrame, gpio>>

\* line 113: without a GPIO library the pulse is only logged
TriggerSimulated(t) ==
    /\ DaemonRunning /\ threads[t] = "called" /\ gpio.mode = "none"
    /\ threads' = [threads EXCEPT ![t] = "run"]
    /\ UNCHANGED <<gpioFrame, gpio>>

\* lines 97 / 105: the line is set LOW, or the driver raises and the except
\* clause of lines 101-102 / 110-111 logs it
TriggerSetLow(t, ok) ==
    /\ DaemonRunning /\ threads[t] = "called" /\ gpio.mode # "none"
    /\ ok => ~gpio.released
    /\ IF ok
       THEN /\ gpio' = [gpio EXCEPT !.line = "LOW"]
            /\ threads' = [threads EXCEPT ![t] = "sleep"]
       ELSE /\ gpio' = [gpio EXCEPT !.driver_raised = TRUE]
            /\ threads' = [threads EXCEPT ![t] = "run"]
    /\ UNCHANGED gpioFrame

\* lines 98 / 106: time.sleep(self.pulse_ms / 1000) returns
TriggerSleepDone(t) ==
    /\ DaemonRunning /\ threads[t] = "sleep"
    /\ threads' = [threads EXCEPT ![t] = "set_high"]
    /\ UNCHANGED <<gpioFrame, gpio>>

\* lines 100 / 108: the line is set back HIGH, or the driver raises and the
\* except clause logs it; trigger returns either way
TriggerSetHigh(t, ok) ==
    /\ DaemonRunning /\ threads[t] = "set_high"
    /\ ok => ~gpio.released
    /\ gpio' = IF ok THEN [gpio EXCEPT !.line = "HIGH"]
                     ELSE [gpio EXCEPT !.driver_raised = TRUE]
    /\ threads' = [threads EXCEPT ![t] = "run"]
    /\ UNCHANGED gpioFrame

\* main.py lines 75-77: KeyboardInterrupt, or an exception that escapes the
\* loop, reaches the loop thread wherever it is, inside trigger as well
Interrupt ==
    /\ DaemonRunning
    /\ threads' = [threads EXCEPT !.loop = "finally"]
    /\ UNCHANGED <<gpioFrame, gpio>>

\* main.py lines 78-79: exit_button.stop() joins the button thread, which
\* ends its callback first, or raises (so when interrupted in the join)
StopButton(ok) ==
    /\ threads.loop = "finally"
    /\ IF threads.button = "none"
       THEN ok /\ threads' = [threads EXCEPT !.loop = "release"]
       ELSE IF ok
            THEN /\ ~InTrigger(threads.button)
                 /\ threads' = Threads("release", "stopped")
            ELSE threads' = [threads EXCEPT !.loop = "exited"]
    /\ UNCHANGED <<gpioFrame, gpio>>

\* main.py line 80: rtsp.release() / camera.release() returns or raises
ReleaseCamera(ok) ==
    /\ threads.loop = "release"
    /\ threads' = [threads EXCEPT !.loop = IF ok THEN "cleanup" ELSE "exited"]
    /\ UNCHANGED <<gpioFrame, gpio>>

\* main.py line 81, gpio_controller.py lines 119-126 / 135-140: cleanup sets
\* the line HIGH; a failure of the driver is passed over
CleanupSetHigh(ok) ==
    /\ threads.loop = "cleanup"
    /\ IF gpio.mode = "none"
       THEN /\ ok
            /\ gpio' = [gpio EXCEPT !.cleanup_calls = 1]
            /\ threads' = [threads EXCEPT !.loop = "exited"]
       ELSE /\ gpio' = IF ok THEN [gpio EXCEPT !.cleanup_calls = 1, !.line = "HIGH",
                                                !.idle_forced = TRUE]
                             ELSE [gpio EXCEPT !.cleanup_calls = 1,
                                                !.driver_raised = TRUE]
            /\ threads' = [threads EXCEPT !.loop = "cleanup_release"]
    /\ UNCHANGED gpioFrame

\* gpio_controller.py lines 127-134 / 141: the line request is released
CleanupRelease ==
    /\ threads.loop = "cleanup_release"
    /\ gpio' = [gpio EXCEPT !.released = TRUE]
    /\ threads' = [threads EXCEPT !.loop = "exited"]
    /\ UNCHANGED gpioFrame

NextGpio ==
    \/ \E t \in ThreadNames : TriggerCall(t)
    \/ \E t \in ThreadNames : TriggerSimulated(t)
    \/ \E t \in ThreadNames, ok \in BOOLEAN : TriggerSetLow(t, ok)
    \/ \E t \in ThreadNames : TriggerSleepDone(t)
    \/ \E t \in ThreadNames, ok \in BOOLEAN : TriggerSetHigh(t, ok)
    \/ Interrupt
    \/ \E ok \in BOOLEAN : StopButton(ok)
    \/ \E ok \in BOOLEAN : ReleaseCamera(ok)
    \/ \E ok \in BOOLEAN : CleanupSetHigh(ok)
    \/ CleanupRelease

SpecGpio == InitGpio /\ [][NextGpio]_vars

PulseInProgress == \E t \in ThreadNames : threads[t] \in {"sleep", "set_high"}

\* C28: while the daemon runs the line is LOW (unlocked) only while some
\* trigger call is in progress, so that once every trigger call has
\* returned the line is HIGH; also when the driver raised during a pulse
\* and when the calls of the two threads overlap.
C28_LowOnlyDuringTrigger ==
    DaemonRunning /\ gpio.line = "LOW" => PulseInProgress

\* the part of C28 that holds: as long as the driver has not raised,
\* overlapping calls included
C28_LowOnlyDuringTriggerUnlessDriverRaised ==
    DaemonRunning /\ gpio.line = "LOW" /\ ~gpio.driver_raised => PulseInProgress

\* C29: whenever the loop thread has left the finally block, on whichever
\* path (exit_button.stop() or the camera release raising included),
\* gpio.cleanup() has been called.
C29_CleanupOnEveryExit ==
    threads.loop = "exited" => gpio.cleanup_calls = 1

\* the part of C29 that holds: cleanup sets the line HIGH before it
\* releases it, unless the driver refuses
C29_IdleForcedBeforeRelease ==
    gpio.released /\ ~gpio.driver_raised => gpio.idle_forced /\ gpio.line = "HIGH"

-----------------------------------------------------------------------------
(* _load_local_users as a function of the cache and of the local users     *)
(* directory, called up to MaxLoadCalls times in a row on its own result.  *)
(* The directory holds at most MaxLocalFiles files: two photos of the same *)
(* stem, a photo of another person, a photo without a face and a file      *)
(* that is not an image.                                                   *)

MaxLocalFiles == 3

MaxLoadCalls == 2

LocalFiles ==
    { LocalFile("admin", ".jpg", FAdmin), LocalFile("admin", ".png", FAdmin),
      LocalFile("bob", ".jpeg", FBob), LocalFile("blurred", ".png", FNoFace),
      LocalFile("notes", ".txt", FAdmin) }

\* a cache without enrollments, one whose server enrollment carries the name
\* of a local photo, one that already holds the local enrollment of admin
LocalCaches ==
    { EmptyCache,
      Cache(<<>>, <<Enrollment(7, "admin", <<3, 4>>, "insightface", FALSE)>>, <<>>),
      Cache(<<>>, <<EAlice, EAdmin>>, <<>>) }

\* lines 101-125: the embeddings one call computes, in order, each with
\* whether the cache already held an is_local enrollment of that name when
\* it was computed (the existing check of lines 122-125 comes after
\* recognizer.embed, line 116)
RECURSIVE LocalEmbedCallsFrom(_, _, _, _)
LocalEmbedCallsFrom(c, rec, dir, i) ==
    IF i > Len(dir) THEN <<>>
    ELSE LET f == dir[i]
             rest == LocalEmbedCallsFrom(LoadLocalFrom(c, rec, <<f>>, 1), rec, dir, i + 1)
         IN  IF f.suffix \in image_extensions
             THEN <<[stem |-> f.stem, present |-> HasLocal(c, f.stem)]>> \o rest
             ELSE rest

LocalEmbedCalls(c, rec, dir) == LocalEmbedCallsFrom(c, rec, dir, 1)

LocalInputs ==
    { [c |-> c, rec |-> [name |-> "insightface", has_face |-> FALSE], dir |-> dir] :
        c \in LocalCaches, dir \in SeqsUpTo(LocalFiles, MaxLocalFiles) }

InitLocal ==
    /\ now = BootTime
    /\ recognizer = [name |-> "insightface", has_face |-> FALSE]
    /\ cache = EmptyCache
    /\ threshold = ThresholdDefault
    /\ last_trigger_time = 0
    /\ consecutive_triggers = 0
    /\ last_no_face_time = 0
    /\ lastPulseAt = -1
    /\ pulsesSinceReset = 0
    /\ DaemonAtRest
    /\ last = Observation("idle", NoFrame)
    /\ fnIn \in LocalInputs
    /\ fnOut = [calls |-> 0, pre |-> fnIn.c, c |-> fnIn.c, embedded |-> <<>>]

\* one more call of _load_local_users()
CallLoadLocalUsers ==
    /\ fnOut.calls < MaxLoadCalls
    /\ fnOut' = [calls |-> fnOut.calls + 1,
                 pre |-> fnOut.c,
                 c |-> _load_local_users(fnOut.c, fnIn.rec, fnIn.dir),
                 embedded |-> LocalEmbedCalls(fnOut.c, fnIn.rec, fnIn.dir)]
    /\ UNCHANGED <<engineVars, fnIn, daemonVars>>

SpecLocal == InitLocal /\ [][CallLoadLocalUsers]_vars

LocalsNamed(c, person_name) ==
    {k \in 1..Len(c.embeddings) :
        c.embeddings[k].person_name = person_name /\ c.embeddings[k].is_local}

LocalStems == {f.stem : f \in LocalFiles}

AtMostOneLocalPerName(c) ==
    \A name \in LocalStems : Cardinality(LocalsNamed(c, name)) <= 1

\* C31: after any number of calls the cache holds at most one is_local
\* enrollment per person name, and a call made when a name is already
\* present as is_local adds nothing for it and does not compute the
\* embedding of its photo.
C31_LoadLocalIdempotent ==
    fnOut.calls > 0 =>
        /\ AtMostOneLocalPerName(fnOut.c)
        /\ \A name \in LocalStems :
              HasLocal(fnOut.pre, name) =>
                  /\ LocalsNamed(fnOut.c, name) = LocalsNamed(fnOut.pre, name)
                  /\ \A i \in 1..Len(fnOut.embedded) : fnOut.embedded[i].stem # name
        /\ \A i \in 1..Len(fnOut.embedded) : ~fnOut.embedded[i].present

\* the part of C31 that holds: at most one local enrollment per name, and a
\* call repeated on its own result changes nothing in the cache
C31_CacheIdempotent ==
    /\ AtMostOneLocalPerName(fnOut.c)
    /\ fnOut.calls > 1 => fnOut.c = fnOut.pre
    /\ \A name \in LocalStems :
          HasLocal(fnOut.pre, name) =>
              LocalsNamed(fnOut.c, name) = LocalsNamed(fnOut.pre, name)

-----------------------------------------------------------------------------
(* The choice of the recognizer in AccessController.__init__: the three    *)
(* registrations in order, each of the first two succeeding or not         *)
(* (import or construction of the provider raising), then the lookup of    *)
(* settings.model_name with its fallback to the default of the registry.   *)

\* self._default = None
NoDefault == ""

\* RecognizerRegistry.__init__
RecognizerRegistry == [_registry |-> {}, _default |-> NoDefault]

\* mutant: every registration becomes the default
register_LastWins(reg, name) ==
    [_registry |-> reg._registry \cup {name}, _default |-> name]

\* RecognizerRegistry.register
register(reg, name) ==
    [_registry |-> reg._registry \cup {name},
     _default |-> IF reg._default = NoDefault THEN name ELSE reg._default]

\* RecognizerRegistry.get: ok is FALSE when it raises KeyError
get(reg, name) == [ok |-> name \in reg._registry, name |-> name]

\* RecognizerRegistry.get_default: ok is FALSE when it raises KeyError
get_default(reg) == [ok |-> reg._default # NoDefault, name |-> reg._default]

\* pipeline.py lines 57-61
SelectRecognizer(reg, model_name) ==
    IF get(reg, model_name).ok THEN get(reg, model_name) ELSE get_default(reg)

\* values of settings.model_name: the three providers, and names under
\* which nothing is registered
ModelNames ==
    {"insightface", "facenet", "hashed", "arcface", "buffalo_l", "base", ""}

\* the providers whose import and construction succeed on the device
RegistryInputs ==
    { [model_name |-> n, available |-> A] :
        n \in ModelNames, A \in SUBSET {"insightface", "facenet"} }

NotConstructed == [name |-> "", has_face |-> FALSE]

InitRegistry ==
    /\ now = BootTime
    /\ recognizer = NotConstructed
    /\ cache = EmptyCache
    /\ threshold = ThresholdDefault
    /\ last_trigger_time = 0
    /\ consecutive_triggers = 0
    /\ last_no_face_time = 0
    /\ lastPulseAt = -1
    /\ pulsesSinceReset = 0
    /\ DaemonAtRest
    /\ last = Observation("idle", NoFrame)
    /\ fnIn \in RegistryInputs
    /\ fnOut = [pc |-> "insightface", recognizer_registry |-> RecognizerRegistry,
                raised |-> FALSE]

\* lines 33-54: a registration inside try / except Exception
TryRegister(name, next) ==
    /\ fnOut.pc = name
    /\ fnOut' = [fnOut EXCEPT
                    !.pc = next,
                    !.recognizer_registry =
                        IF name \in fnIn.available THEN register(@, name) ELSE @]
    /\ UNCHANGED <<engineVars, fnIn, daemonVars>>

RegisterInsightFace == TryRegister("insightface", "facenet")

RegisterFaceNet == TryRegister("facenet", "hashed")

\* line 55: HashedRecognizer needs nothing and is registered outside any try
RegisterHashed ==
    /\ fnOut.pc = "hashed"
    /\ fnOut' = [fnOut EXCEPT !.pc = "select",
                              !.recognizer_registry = register(@, "hashed")]
    /\ UNCHANGED <<engineVars, fnIn, daemonVars>>

\* lines 57-61
ChooseRecognizer ==
    /\ fnOut.pc = "select"
    /\ \E r \in {SelectRecognizer(fnOut.recognizer_registry, fnIn.model_name)} :
          /\ fnOut' = [fnOut EXCEPT !.pc = "done", !.raised = ~r.ok]
          /\ recognizer' = IF r.ok THEN [name |-> r.name, has_face |-> FALSE]
                           ELSE recognizer
    /\ UNCHANGED <<now, cache, threshold, last_trigger_time, consecutive_triggers,
                   last_no_face_time, last, lastPulseAt, pulsesSinceReset,
                   fnIn, daemonVars>>

NextRegistry ==
    \/ RegisterInsightFace
    \/ RegisterFaceNet
    \/ RegisterHashed
    \/ ChooseRecognizer

SpecRegistry == InitRegistry /\ [][NextRegistry]_vars

Registered == fnIn.available \cup {"hashed"}

FirstRegistered ==
    IF "insightface" \in fnIn.available THEN "insightface"
    ELSE IF "facenet" \in fnIn.available THEN "facenet"
    ELSE "hashed"

\* C34: the active recognizer is the one registered under settings.model_name
\* if that registration succeeded, else the default of the registry, which
\* is the first provider registered with success in the order insightface,
\* facenet, hashed and is not changed by a later registration; the
\* construction never fails for lack of a provider.
C34_ProviderSelection ==
    /\ fnOut.recognizer_registry._default # NoDefault
          => fnOut.recognizer_registry._default = FirstRegistered
    /\ fnOut.pc = "done" =>
          /\ ~fnOut.raised
          /\ fnOut.recognizer_registry._registry = Registered
          /\ recognizer.name = IF fnIn.model_name \in Registered
                               THEN fnIn.model_name ELSE FirstRegistered

\* the configured name is not registered, insightface failed to load, and
\* the recognizer is facenet although hashed was registered after it
C34_Witness ==
    /\ fnOut.pc = "done" /\ fnIn.model_name = "insightface"
    /\ fnIn.available = {"facenet"}
    /\ recognizer.name = "facenet"

====
